---- MODULE Spec2Model ----
(***************************************************************************)
(* StudyBuddy backend: the file-backed subscription registry, the          *)
(* upcoming-assignment aggregation and the inbound SMS webhook handler,    *)
(* modelled from backend/src.                                              *)
(*                                                                         *)
(* Spec      sequential registry operations on the subscriptions document  *)
(* SpecRace  overlapping registry requests on the Node.js event loop       *)
(* SpecAgg   one call of CanvasService.getUpcomingAssignments              *)
(* SpecHook  one POST /sms/webhook request                                 *)
(***************************************************************************)
EXTENDS Integers, Sequences, FiniteSets, TLC

VARIABLES
    file,       \* content of data/subscriptions.json: a sequence of Subscription
    clock,      \* Date.now(): source of Subscription.id and createdAt
    last,       \* the registry call that ran last: its inputs, the document before it, its outcome
    reqs,       \* SpecRace: the registry requests in flight, each with its handler's locals
    running,    \* SpecRace: the request whose handler holds the JavaScript thread, 0 for none
    agg,        \* SpecAgg: the locals of one getUpcomingAssignments call and what it returned
    hook,       \* SpecHook: one webhook request, its handler's position, calls and response
    cyc,        \* SpecCycle: one POST /send-assignment-reminder request and its handler's locals
    batch       \* SpecCycle, SpecBatch: one run of sendDailyReminders

regVars  == <<file, clock, last>>
raceVars == <<reqs, running>>
cycVars  == <<cyc, batch>>
notRegistry == <<raceVars, agg, hook, cycVars>> \* what the sequential registry operations never touch
vars == <<file, clock, last, reqs, running, agg, hook, cyc, batch>>

(***************************************************************************)
(* Bounds and input domains                                                *)
(***************************************************************************)
MaxClock == 4                   \* Date.now() values handed out: MaxClock - 1 subscriptions get created
MaxRequests == 3                \* SpecRace: registry requests sent to the server
MaxCourses == 2                 \* SpecAgg: courses with a name and no access restriction
MaxAssignments == 3             \* SpecAgg: assignments the course-data API returns in one call

NoValue == <<>>                 \* an optional field left out of the request body; <<v>> when given

\* the same number in two formats, another number, and one too short for the routes
PhoneNumbers == {"+14085551234", "14085551234", "4085550000", "555"}
ApiKeys      == {"canvas-key", ""}
DaysAheadIn  == {NoValue, <<14>>, <<31>>}

MinPhoneLen == 10
MinApiKeyLen == 1
MinDaysAhead == 1
MaxDaysAhead == 30

(***************************************************************************)
(* SubscriptionService (the subscription store)                            *)
(***************************************************************************)
\* the document when fs.readFileSync or JSON.parse throws on it: what was written last is
\* kept aside, and no read returns it
Unreadable(f) == <<[unreadable |-> f]>>
isUnreadable(f) == Len(f) = 1 /\ DOMAIN f[1] = {"unreadable"}

readSubscriptions_salvages(f) == IF isUnreadable(f) THEN f[1].unreadable ELSE f

\* readSubscriptions: the document parsed back into the array that was written, [] from
\* the catch when the read or the parse throws
readSubscriptions(f) == IF isUnreadable(f) THEN <<>> ELSE f

\* writeSubscriptions: the whole array replaces the document
writeSubscriptions(subscriptions) == subscriptions

\* Array.prototype.findIndex on phoneNumber, 0 for -1 (sequences are 1-based)
findIndex(subscriptions, phoneNumber) ==
    IF \E i \in 1..Len(subscriptions) : subscriptions[i].phoneNumber = phoneNumber
    THEN CHOOSE i \in 1..Len(subscriptions) :
            /\ subscriptions[i].phoneNumber = phoneNumber
            /\ \A j \in 1..(i - 1) : subscriptions[j].phoneNumber # phoneNumber
    ELSE 0

\* the duplicate check of createSubscription: subscriptions.find(sub => sub.phoneNumber === data.phoneNumber)
existing_activeOnly(subscriptions, phoneNumber) ==
    \E i \in 1..Len(subscriptions) :
        subscriptions[i].phoneNumber = phoneNumber /\ subscriptions[i].isActive

existing(subscriptions, phoneNumber) ==
    \E i \in 1..Len(subscriptions) : subscriptions[i].phoneNumber = phoneNumber

newSubscription(data, now) ==
    [id          |-> now,
     phoneNumber |-> data.phoneNumber,
     apiKey      |-> data.apiKey,
     daysAhead   |-> data.daysAhead,
     createdAt   |-> now,
     isActive    |-> TRUE]

createSubscription_compacts(f, data, now) ==
    LET subscriptions == readSubscriptions(f) IN
    IF existing(subscriptions, data.phoneNumber)
    THEN [threw |-> "Phone number already subscribed", wrote |-> FALSE, file |-> f,
          subscription |-> <<>>]
    ELSE [threw        |-> "",
          wrote        |-> TRUE,
          file         |-> writeSubscriptions(Append(SelectSeq(subscriptions, LAMBDA sub : sub.isActive),
                                                     newSubscription(data, now))),
          subscription |-> <<newSubscription(data, now)>>]

\* createSubscription on the document content f: [threw, wrote, file, subscription];
\* wrote says whether writeSubscriptions ran, file is what it wrote; subscription is <<>>
\* when it threw
createSubscription(f, data, now) ==
    LET subscriptions == readSubscriptions(f) IN
    IF existing(subscriptions, data.phoneNumber)
    THEN [threw |-> "Phone number already subscribed", wrote |-> FALSE, file |-> f,
          subscription |-> <<>>]
    ELSE [threw        |-> "",
          wrote        |-> TRUE,
          file         |-> writeSubscriptions(Append(subscriptions, newSubscription(data, now))),
          subscription |-> <<newSubscription(data, now)>>]

getActiveSubscriptions_all(f) == readSubscriptions(f)

\* getActiveSubscriptions
getActiveSubscriptions(f) == SelectSeq(readSubscriptions(f), LAMBDA sub : sub.isActive)

deactivated_dropsRecord(subscriptions, index) ==
    [i \in 1..(Len(subscriptions) - 1) |->
        IF i < index THEN subscriptions[i] ELSE subscriptions[i + 1]]

\* subscriptions[index].isActive = false
deactivated(subscriptions, index) ==
    [subscriptions EXCEPT ![index].isActive = FALSE]

unsubscribe_onlyActive(f, phoneNumber) ==
    LET subscriptions == readSubscriptions(f)
        index == findIndex(subscriptions, phoneNumber) IN
    IF index = 0 \/ ~subscriptions[index].isActive
    THEN [result |-> FALSE, wrote |-> FALSE, file |-> f]
    ELSE [result |-> TRUE, wrote |-> TRUE,
          file |-> writeSubscriptions(deactivated(subscriptions, index))]

\* unsubscribe: [result, wrote, file]
unsubscribe(f, phoneNumber) ==
    LET subscriptions == readSubscriptions(f)
        index == findIndex(subscriptions, phoneNumber) IN
    IF index = 0
    THEN [result |-> FALSE, wrote |-> FALSE, file |-> f]
    ELSE [result |-> TRUE, wrote |-> TRUE,
          file |-> writeSubscriptions(deactivated(subscriptions, index))]

deleteSubscription_deactivates(f, phoneNumber) == unsubscribe(f, phoneNumber)

\* deleteSubscription: [result, wrote, file]
deleteSubscription(f, phoneNumber) ==
    LET subscriptions == readSubscriptions(f)
        filtered == SelectSeq(subscriptions, LAMBDA sub : sub.phoneNumber # phoneNumber) IN
    IF Len(filtered) = Len(subscriptions)
    THEN [result |-> FALSE, wrote |-> FALSE, file |-> f]
    ELSE [result |-> TRUE, wrote |-> TRUE, file |-> writeSubscriptions(filtered)]

\* getSubscription: <<>> for null, <<sub>> otherwise
getSubscription(f, phoneNumber) ==
    LET subscriptions == readSubscriptions(f)
        index == findIndex(subscriptions, phoneNumber) IN
    IF index = 0 THEN <<>> ELSE <<subscriptions[index]>>

(***************************************************************************)
(* The routes in front of the store                                        *)
(***************************************************************************)
\* the zod schema of POST /subscribe
subscribeSchemaOk(body) ==
    /\ Len(body.phoneNumber) >= MinPhoneLen
    /\ Len(body.apiKey) >= MinApiKeyLen
    /\ body.daysAhead # NoValue =>
            (body.daysAhead[1] >= MinDaysAhead /\ body.daysAhead[1] <= MaxDaysAhead)

\* the zod schema of POST /unsubscribe
unsubscribeSchemaOk(body) == Len(body.phoneNumber) >= MinPhoneLen

SubscribeBodies == [phoneNumber : PhoneNumbers, apiKey : ApiKeys, daysAhead : DaysAheadIn]

Call(op, phoneNumber, pre, status, ok, sub, list) ==
    [op |-> op, phoneNumber |-> phoneNumber, pre |-> pre, status |-> status,
     ok |-> ok, sub |-> sub, list |-> list]

\* router.post("/subscribe")
PostSubscribe(body) ==
    IF ~subscribeSchemaOk(body)
    THEN /\ last' = Call("subscribe", body.phoneNumber, file, 400, FALSE, <<>>, <<>>)
         /\ UNCHANGED <<file, clock, notRegistry>>
    ELSE LET r == createSubscription(file, body, clock) IN
         IF r.threw # ""
         THEN /\ last' = Call("subscribe", body.phoneNumber, file, 409, FALSE, <<>>, <<>>)
              /\ UNCHANGED <<file, clock, notRegistry>>
         ELSE /\ clock < MaxClock
              /\ file' = (IF r.wrote THEN r.file ELSE file)
              /\ clock' = clock + 1
              /\ last' = Call("subscribe", body.phoneNumber, file, 200, TRUE, r.subscription, <<>>)
              /\ UNCHANGED notRegistry

\* router.post("/unsubscribe")
PostUnsubscribe(body) ==
    IF ~unsubscribeSchemaOk(body)
    THEN /\ last' = Call("unsubscribe", body.phoneNumber, file, 400, FALSE, <<>>, <<>>)
         /\ UNCHANGED <<file, clock, notRegistry>>
    ELSE LET r == unsubscribe(file, body.phoneNumber) IN
         /\ file' = (IF r.wrote THEN r.file ELSE file)
         /\ last' = Call("unsubscribe", body.phoneNumber, file,
                         IF r.result THEN 200 ELSE 404, r.result, <<>>, <<>>)
         /\ UNCHANGED <<clock, notRegistry>>

\* SubscriptionService.deleteSubscription, which no route fronts
DeleteSubscription(phoneNumber) ==
    LET r == deleteSubscription(file, phoneNumber) IN
    /\ file' = (IF r.wrote THEN r.file ELSE file)
    /\ last' = Call("delete", phoneNumber, file, 0, r.result, <<>>, <<>>)
    /\ UNCHANGED <<clock, notRegistry>>

\* router.get("/subscription/:phoneNumber")
GetSubscriptionStatus(phoneNumber) ==
    /\ last' = Call("get", phoneNumber, file, 200, getSubscription(file, phoneNumber) # <<>>,
                    getSubscription(file, phoneNumber), <<>>)
    /\ UNCHANGED <<file, clock, notRegistry>>

\* SubscriptionService.getActiveSubscriptions, as the batch job calls it
GetActive ==
    /\ last' = Call("getActive", "", file, 0, TRUE, <<>>, getActiveSubscriptions(file))
    /\ UNCHANGED <<file, clock, notRegistry>>

NoCall == Call("none", "", <<>>, 0, FALSE, <<>>, <<>>)

RaceIdle ==
    /\ reqs = [r \in 1..MaxRequests |->
                [pc |-> "idle", op |-> "", body |-> <<>>, subscriptions |-> <<>>,
                 status |-> 0, sub |-> <<>>, overlaps |-> {}]]
    /\ running = 0

AggIdle ==
    agg = [pc |-> "idle", daysAhead |-> 0, coursesCalls |-> 0, coursesFetch |-> "pending", courses |-> <<>>,
           replies |-> <<>>, now |-> 0, returned |-> [assignments |-> <<>>, courses |-> <<>>]]

NoRequest == [signature |-> NoValue, timestamp |-> NoValue,
              body |-> [fromNumber |-> "", text |-> NoValue]]

HookIdle ==
    hook = [pc |-> "idle", req |-> NoRequest, now |-> 0, routed |-> FALSE,
            response |-> [status |-> 0, message |-> ""], aiCalls |-> 0,
            generation |-> "none", sms |-> <<>>]

\* the locals of a POST /send-assignment-reminder handler that has not started: origin is
\* 0 for a client's request and the post's index for a request of the batch job
NewCycle ==
    [pc |-> "idle", origin |-> 0, body |-> <<>>, key |-> NoValue, calls |-> <<>>,
     canvasData |-> NoValue,
     assignmentText |-> NoValue, sms |-> NoValue, smsResponse |-> NoValue,
     response |-> NoValue]

CycleIdle == cyc = NewCycle

\* no batch has run: batch is the sequence of the sendDailyReminders calls made so far
BatchIdle == batch = <<>>

\* ensureDataDirectory: the document starts as []
Init ==
    /\ file = <<>>
    /\ clock = 1
    /\ last = NoCall
    /\ RaceIdle
    /\ AggIdle
    /\ HookIdle
    /\ CycleIdle
    /\ BatchIdle

Next ==
    \/ \E body \in SubscribeBodies : PostSubscribe(body)
    \/ \E phoneNumber \in PhoneNumbers : PostUnsubscribe([phoneNumber |-> phoneNumber])
    \/ \E phoneNumber \in PhoneNumbers : DeleteSubscription(phoneNumber)
    \/ \E phoneNumber \in PhoneNumbers : GetSubscriptionStatus(phoneNumber)
    \/ GetActive

Spec == Init /\ [][Next]_vars

(***************************************************************************)
(* SpecRace: overlapping POST /subscribe and POST /unsubscribe requests.   *)
(* A handler is one callback on the event loop.  Its read of the document  *)
(* (readFileSync) and its write (writeFileSync) are synchronous calls with *)
(* no await between them, so no other handler runs in between.             *)
(***************************************************************************)
RaceBodies ==
    [phoneNumber : {"+14085551234", "14085551234", "555"}, apiKey : {"canvas-key"},
     daysAhead : {NoValue}]

threadFree_awaited == TRUE

\* whether a handler may start: true when no handler has read the document without
\* having returned yet
threadFree == running = 0

\* the request reaches the server; its handler waits on the event loop.  overlaps records
\* the requests that were waiting or running at that moment.
Arrive(r, op, body) ==
    /\ reqs[r].pc = "idle"
    /\ \A q \in 1..(r - 1) : reqs[q].pc # "idle"
    /\ reqs' = [reqs EXCEPT ![r] =
                    [pc |-> "pending", op |-> op, body |-> body, subscriptions |-> <<>>,
                     status |-> 0, sub |-> <<>>,
                     overlaps |-> {q \in 1..MaxRequests : reqs[q].pc \in {"pending", "read"}}]]
    /\ UNCHANGED <<regVars, running, agg, hook, cycVars>>

\* the handler starts: schema.safeParse, then the service call up to readSubscriptions()
HandlerReads(r) ==
    /\ reqs[r].pc = "pending"
    /\ threadFree
    /\ IF ~(IF reqs[r].op = "subscribe" THEN subscribeSchemaOk(reqs[r].body)
                                         ELSE unsubscribeSchemaOk(reqs[r].body))
       THEN /\ reqs' = [reqs EXCEPT ![r].pc = "done", ![r].status = 400]
            /\ UNCHANGED running
       ELSE /\ reqs' = [reqs EXCEPT ![r].pc = "read",
                                    ![r].subscriptions = readSubscriptions(file)]
            /\ running' = r
    /\ UNCHANGED <<regVars, agg, hook, cycVars>>

\* the rest of createSubscription on what was read, and the response of POST /subscribe
SubscribeWrites(r) ==
    /\ reqs[r].pc = "read"
    /\ reqs[r].op = "subscribe"
    /\ LET res == createSubscription(reqs[r].subscriptions, reqs[r].body, clock) IN
        /\ file' = (IF res.wrote THEN res.file ELSE file)
        /\ clock' = (IF res.wrote THEN clock + 1 ELSE clock)
        /\ reqs' = [reqs EXCEPT ![r].pc = "done",
                                ![r].status = (IF res.threw # "" THEN 409 ELSE 200),
                                ![r].sub = res.subscription]
    /\ running' = 0
    /\ UNCHANGED <<last, agg, hook, cycVars>>

\* the rest of unsubscribe on what was read, and the response of POST /unsubscribe
UnsubscribeWrites(r) ==
    /\ reqs[r].pc = "read"
    /\ reqs[r].op = "unsubscribe"
    /\ LET res == unsubscribe(reqs[r].subscriptions, reqs[r].body.phoneNumber) IN
        /\ file' = (IF res.wrote THEN res.file ELSE file)
        /\ reqs' = [reqs EXCEPT ![r].pc = "done",
                                ![r].status = (IF res.result THEN 200 ELSE 404)]
    /\ running' = 0
    /\ UNCHANGED <<clock, last, agg, hook, cycVars>>

InitRace ==
    /\ file = <<>>
    /\ clock = 1
    /\ last = NoCall
    /\ RaceIdle
    /\ AggIdle
    /\ HookIdle
    /\ CycleIdle
    /\ BatchIdle

NextRace ==
    \/ \E r \in 1..MaxRequests, op \in {"subscribe", "unsubscribe"}, body \in RaceBodies :
            Arrive(r, op, body)
    \/ \E r \in 1..MaxRequests : HandlerReads(r)
    \/ \E r \in 1..MaxRequests : SubscribeWrites(r)
    \/ \E r \in 1..MaxRequests : UnsubscribeWrites(r)

SpecRace == InitRace /\ [][NextRace]_vars

(***************************************************************************)
(* SpecAgg: CanvasService.getUpcomingAssignments.  The course-data API's   *)
(* answers are the inputs; the per-course fetches settle in any order.     *)
(***************************************************************************)
MsPerDay == 24 * 60 * 60 * 1000

\* A due_at string is an ISO date: d days after the epoch, t milliseconds into the day.
\* new Date(due_at).getTime()
getTime(due_at) == due_at.d * MsPerDay + due_at.t

DueValues ==
    {NoValue, <<[d |-> 0, t |-> 1000]>>, <<[d |-> 3, t |-> 1000]>>, <<[d |-> 7, t |-> 1000]>>,
     <<[d |-> 7, t |-> 1001]>>, <<[d |-> 20, t |-> 1000]>>}
Clocks == {1000, 1001}          \* new Date() at the time of the filter
DaysAheadArgs == {1, 7}

\* what GET /courses may list: MaxCourses ordinary courses, one without a name and one
\* restricted by date
RawCourse(id) ==
    [id |-> id,
     name |-> IF id = MaxCourses + 1 THEN <<>> ELSE <<"course", id>>,
     access_restricted_by_date |-> (id = MaxCourses + 2)]

RECURSIVE ById(_)
ById(ids) ==
    IF ids = {} THEN <<>>
    ELSE LET m == CHOOSE x \in ids : \A y \in ids : x <= y IN
         <<RawCourse(m)>> \o ById(ids \ {m})

\* getCourses: response.data.filter(course => course.name && !course.access_restricted_by_date)
getCourses(data) ==
    SelectSeq(data, LAMBDA course : course.name # <<>> /\ ~course.access_restricted_by_date)

\* the assignments of one answer: ids are course-scoped, the order is the API's
RawAssignments(course, dues) ==
    [k \in 1..Len(dues) |-> [id |-> k, course_id |-> course.id, due_at |-> dues[k]]]

\* assignments.map(assignment => ({...assignment, courseName: course.name, ...}))
decorate(course, assignments) ==
    [k \in 1..Len(assignments) |->
        [id |-> assignments[k].id, course_id |-> assignments[k].course_id,
         due_at |-> assignments[k].due_at, courseName |-> course.name]]

courseResult_noCatch(reply) == reply

\* what a course's promise settles to: the inner catch turns a rejection into []
courseResult(reply) ==
    IF reply.state = "failed" THEN [reply EXCEPT !.state = "ok", !.assignments = <<>>] ELSE reply

RECURSIVE flat(_)
flat(lists) == IF lists = <<>> THEN <<>> ELSE Head(lists) \o flat(Tail(lists))

upcoming_noUpperBound(assignment, now, daysAhead) ==
    /\ assignment.due_at # NoValue
    /\ getTime(assignment.due_at[1]) >= now

\* the filter predicate: due_at present, dueDate >= now && dueDate <= futureDate
upcoming(assignment, now, daysAhead) ==
    /\ assignment.due_at # NoValue
    /\ getTime(assignment.due_at[1]) >= now
    /\ getTime(assignment.due_at[1]) <= now + daysAhead * MsPerDay

compare_descending(a, b) ==
    IF a.due_at = NoValue \/ b.due_at = NoValue THEN 0
    ELSE getTime(b.due_at[1]) - getTime(a.due_at[1])

\* the sort comparator
compare(a, b) ==
    IF a.due_at = NoValue \/ b.due_at = NoValue THEN 0
    ELSE getTime(a.due_at[1]) - getTime(b.due_at[1])

\* x placed in the sorted s before the first element that compares greater
RECURSIVE insert(_, _)
insert(x, s) ==
    IF s = <<>> THEN <<x>>
    ELSE IF compare(Head(s), x) > 0 THEN <<x>> \o s
    ELSE <<Head(s)>> \o insert(x, Tail(s))

\* Array.prototype.sort with the comparator: stable
RECURSIVE sort(_)
sort(s) == IF s = <<>> THEN <<>> ELSE insert(s[Len(s)], sort(SubSeq(s, 1, Len(s) - 1)))

Fetched == flat([i \in 1..Len(agg.replies) |-> agg.replies[i].raw])

\* getUpcomingAssignments(apiKey, canvasUrl, daysAhead) up to its first await: getCourses
\* has been called
called(a, daysAhead) ==
    [a EXCEPT !.pc = "courses", !.daysAhead = daysAhead, !.coursesCalls = @ + 1]

\* getUpcomingAssignments(apiKey, canvasUrl, daysAhead) is called and awaits getCourses
CallGetUpcoming(daysAhead) ==
    /\ agg.pc = "idle"
    /\ agg' = called(agg, daysAhead)
    /\ UNCHANGED <<regVars, raceVars, hook, cycVars>>

\* GET /courses answers
CoursesReply(data) ==
    /\ agg.pc = "courses"
    /\ agg' = [agg EXCEPT !.pc = "assignments",
                          !.coursesFetch = "ok",
                          !.courses = getCourses(data),
                          !.replies = [i \in 1..Len(getCourses(data)) |->
                                        [state |-> "pending", calls |-> 1, raw |-> <<>>,
                                         assignments |-> <<>>]]]
    /\ UNCHANGED <<regVars, raceVars, hook, cycVars>>

\* GET /courses fails: getCourses throws, and the outer catch rethrows
CoursesFail ==
    /\ agg.pc = "courses"
    /\ agg' = [agg EXCEPT !.pc = "failed", !.coursesFetch = "failed"]
    /\ UNCHANGED <<regVars, raceVars, hook, cycVars>>

\* GET /courses/:id/assignments answers for course i with n assignments
AssignmentsReply(i, n) ==
    /\ agg.pc = "assignments"
    /\ i \in 1..Len(agg.replies)
    /\ agg.replies[i].state = "pending"
    /\ Len(Fetched) + n <= MaxAssignments
    /\ \E dues \in [1..n -> DueValues] :
        LET raw == RawAssignments(agg.courses[i], dues) IN
        agg' = [agg EXCEPT !.replies[i] =
                    [state |-> "ok", calls |-> agg.replies[i].calls, raw |-> raw,
                     assignments |-> decorate(agg.courses[i], raw)]]
    /\ UNCHANGED <<regVars, raceVars, hook, cycVars>>

rejected_retries(reply) ==
    IF reply.calls < 2 THEN [reply EXCEPT !.calls = @ + 1] ELSE [reply EXCEPT !.state = "failed"]

\* getCourseAssignments throws: the course's fetch has failed.  calls counts the
\* getCourseAssignments calls made for the course
rejected(reply) == [reply EXCEPT !.state = "failed"]

\* GET /courses/:id/assignments fails for course i
AssignmentsFail(i) ==
    /\ agg.pc = "assignments"
    /\ i \in 1..Len(agg.replies)
    /\ agg.replies[i].state = "pending"
    /\ agg' = [agg EXCEPT !.replies[i] = rejected(@)]
    /\ UNCHANGED <<regVars, raceVars, hook, cycVars>>

\* Promise.all settles: flat, filter, sort, return; a rejected course promise would
\* reach the outer catch
Join(now) ==
    /\ agg.pc = "assignments"
    /\ \A i \in 1..Len(agg.replies) : agg.replies[i].state # "pending"
    /\ LET results == [i \in 1..Len(agg.replies) |-> courseResult(agg.replies[i])]
           allAssignments == flat([i \in 1..Len(results) |-> results[i].assignments])
           upcomingAssignments ==
                SelectSeq(allAssignments, LAMBDA a : upcoming(a, now, agg.daysAhead)) IN
        IF \E i \in 1..Len(results) : results[i].state = "failed"
        THEN agg' = [agg EXCEPT !.pc = "failed", !.now = now]
        ELSE agg' = [agg EXCEPT !.pc = "done", !.now = now,
                                !.returned = [assignments |-> sort(upcomingAssignments),
                                              courses |-> agg.courses]]
    /\ UNCHANGED <<regVars, raceVars, hook, cycVars>>

InitAgg ==
    /\ file = <<>>
    /\ clock = 1
    /\ last = NoCall
    /\ RaceIdle
    /\ AggIdle
    /\ HookIdle
    /\ CycleIdle
    /\ BatchIdle

NextAgg ==
    \/ \E daysAhead \in DaysAheadArgs : CallGetUpcoming(daysAhead)
    \/ \E ids \in SUBSET (1..(MaxCourses + 2)) : CoursesReply(ById(ids))
    \/ CoursesFail
    \/ \E i \in 1..MaxCourses, n \in 0..MaxAssignments : AssignmentsReply(i, n)
    \/ \E i \in 1..MaxCourses : AssignmentsFail(i)
    \/ \E now \in Clocks : Join(now)

SpecAgg == InitAgg /\ [][NextAgg]_vars

(***************************************************************************)
(* SpecHook: router.post("/sms/webhook").  Strings the handler inspects    *)
(* are sequences of one-character strings; a header or field that may be  *)
(* missing is NoValue or <<value>>.                                        *)
(***************************************************************************)
TextbeltApiKey == "textbelt-key"        \* process.env.TEXTBELT_API_KEY
MaxAgeSeconds == 900

Digits == <<"0", "1", "2", "3", "4", "5", "6", "7", "8", "9">>
Upper  == <<"S", "T", "O", "P">>
Lower  == <<"s", "t", "o", "p">>

IsDigit(c) == \E d \in 1..Len(Digits) : Digits[d] = c
DigitValue(c) == (CHOOSE d \in 1..Len(Digits) : Digits[d] = c) - 1

\* parseInt(timestamp): the number its leading digits spell, NoValue for NaN
RECURSIVE leadingDigits(_, _)
leadingDigits(chars, acc) ==
    IF chars # <<>> /\ IsDigit(Head(chars))
    THEN leadingDigits(Tail(chars), acc * 10 + DigitValue(Head(chars)))
    ELSE acc
parseInt(chars) ==
    IF chars # <<>> /\ IsDigit(Head(chars)) THEN <<leadingDigits(chars, 0)>> ELSE NoValue

\* String.prototype.toLowerCase
toLowerCase(chars) ==
    [i \in 1..Len(chars) |->
        IF \E u \in 1..Len(Upper) : Upper[u] = chars[i]
        THEN Lower[CHOOSE u \in 1..Len(Upper) : Upper[u] = chars[i]]
        ELSE chars[i]]

\* String.prototype.includes
includes(chars, needle) ==
    \E i \in 0..(Len(chars) - Len(needle)) :
        \A k \in 1..Len(needle) : chars[i + k] = needle[k]

isOptOut_caseSensitive(text) == includes(text, <<"s", "t", "o", "p">>)

\* webhookData.text.toLowerCase().includes("stop")
isOptOut(text) == includes(toLowerCase(text), <<"s", "t", "o", "p">>)

\* JSON.stringify(req.body)
stringify(body) ==
    <<"{", body.fromNumber>> \o (IF body.text = NoValue THEN <<>> ELSE <<":">> \o body.text[1])
        \o <<"}">>

\* crypto.createHmac("sha256", key).update(data).digest("hex"): 64 characters that
\* stand for the key and the data
createHmac(key, data) == [kind |-> "hex", key |-> key, data |-> data]

byteLength(signature) ==
    IF signature.kind = "hex" THEN 64 ELSE Len(signature.data)

verifyWebhook_lengthOnly(apiKey, timestamp, signature, payload) ==
    byteLength(signature) = byteLength(createHmac(apiKey, timestamp \o payload))

\* SmsService.verifyWebhook: timingSafeEqual throws on buffers of different length,
\* which the catch turns into false
verifyWebhook(apiKey, timestamp, signature, payload) ==
    LET mySignature == createHmac(apiKey, timestamp \o payload) IN
    IF byteLength(signature) # byteLength(mySignature) THEN FALSE
    ELSE signature = mySignature

\* a header value in a JavaScript condition: undefined and "" are falsy
truthySignature(h) == h # NoValue /\ h[1].kind # "empty"
truthyString(h) == h # NoValue /\ h[1] # <<>>

tooOld_milliseconds(timeDiff) == timeDiff > MaxAgeSeconds * 1000

\* timeDiff > 900
tooOld(timeDiff) == timeDiff > MaxAgeSeconds

\* the verification block of the handler: "" when the request goes on, else the message
\* of the 401
verification(req, now) ==
    IF truthySignature(req.signature) /\ truthyString(req.timestamp)
    THEN IF ~verifyWebhook(TextbeltApiKey, req.timestamp[1], req.signature[1],
                           stringify(req.body))
         THEN "Invalid webhook signature"
         ELSE LET timestampSeconds == parseInt(req.timestamp[1]) IN
              IF timestampSeconds # NoValue /\ tooOld(now - timestampSeconds[1])
              THEN "Webhook timestamp too old"
              ELSE ""
    ELSE ""

Dispatch(phone, message) == [phone |-> phone, message |-> message, outcome |-> "pending"]

onInnerCatch_noFallback(h) ==
    [h EXCEPT !.pc = "done",
              !.response = [status |-> 500, message |-> "Failed to process webhook"]]

\* the inner catch: the fallback message is dispatched to fromNumber
onInnerCatch(h) ==
    [h EXCEPT !.pc = "sendingFallback",
              !.sms = Append(@, Dispatch(h.req.body.fromNumber, "fallback"))]

\* the handler runs from the request to its first await or to its response
Receive(req, now) ==
    /\ hook.pc = "idle"
    /\ LET refusal == verification(req, now)
           h == [hook EXCEPT !.req = req, !.now = now] IN
        hook' =
            IF refusal # ""
            THEN [h EXCEPT !.pc = "done", !.response = [status |-> 401, message |-> refusal]]
            ELSE IF req.body.text = NoValue
            THEN [h EXCEPT !.pc = "done", !.routed = TRUE,
                           !.response = [status |-> 500, message |-> "Failed to process webhook"]]
            ELSE IF isOptOut(req.body.text[1])
            THEN [h EXCEPT !.pc = "done", !.routed = TRUE,
                           !.response = [status |-> 200, message |-> "User opted out"]]
            ELSE [h EXCEPT !.pc = "generating", !.routed = TRUE, !.aiCalls = @ + 1]
    /\ UNCHANGED <<regVars, raceVars, agg, cycVars>>

\* AIService.generateResponse returns
GenerationReturns ==
    /\ hook.pc = "generating"
    /\ hook' = [hook EXCEPT !.pc = "sendingAnswer",
                            !.generation = "returned",
                            !.sms = Append(@, Dispatch(hook.req.body.fromNumber, "answer"))]
    /\ UNCHANGED <<regVars, raceVars, agg, cycVars>>

\* AIService.generateResponse throws
GenerationThrows ==
    /\ hook.pc = "generating"
    /\ hook' = onInnerCatch([hook EXCEPT !.generation = "threw"])
    /\ UNCHANGED <<regVars, raceVars, agg, cycVars>>

\* SmsService.sendSms of the answer returns the collaborator's 2xx body, success or not
AnswerDispatchReturns(success) ==
    /\ hook.pc = "sendingAnswer"
    /\ hook' = [hook EXCEPT !.pc = "done",
                            !.sms[Len(hook.sms)].outcome = (IF success THEN "delivered" ELSE "refused"),
                            !.response = [status |-> 200, message |-> "Reply processed and sent"]]
    /\ UNCHANGED <<regVars, raceVars, agg, cycVars>>

\* SmsService.sendSms of the answer throws (transport error or non-2xx)
AnswerDispatchThrows ==
    /\ hook.pc = "sendingAnswer"
    /\ hook' = onInnerCatch([hook EXCEPT !.sms[Len(hook.sms)].outcome = "threw"])
    /\ UNCHANGED <<regVars, raceVars, agg, cycVars>>

\* SmsService.sendSms of the fallback returns
FallbackDispatchReturns(success) ==
    /\ hook.pc = "sendingFallback"
    /\ hook' = [hook EXCEPT !.pc = "done",
                            !.sms[Len(hook.sms)].outcome = (IF success THEN "delivered" ELSE "refused"),
                            !.response = [status |-> 200, message |-> "Reply processed and sent"]]
    /\ UNCHANGED <<regVars, raceVars, agg, cycVars>>

\* SmsService.sendSms of the fallback throws: the outer catch answers 500
FallbackDispatchThrows ==
    /\ hook.pc = "sendingFallback"
    /\ hook' = [hook EXCEPT !.pc = "done",
                            !.sms[Len(hook.sms)].outcome = "threw",
                            !.response = [status |-> 500, message |-> "Failed to process webhook"]]
    /\ UNCHANGED <<regVars, raceVars, agg, cycVars>>

\* the inputs of SpecHook
Sender == "+14085551234"
Texts ==
    {<<"S", "T", "O", "P">>, <<"s", "t", "o", "p">>, <<"n", "o", "n", "S", "t", "O", "p">>,
     <<"s", "t", "o">>, <<"h", "i", "?">>, <<>>}
HookBodies == [fromNumber : {Sender}, text : {NoValue} \cup {<<t>> : t \in Texts}]
TimestampHeaders ==
    {NoValue, <<<<>>>>, <<<<"9", "9">>>>, <<<<"1", "0", "0">>>>, <<<<"1", "0", "0", "0">>>>,
     <<<<"3", "0", "0", "0">>>>, <<<<"x">>>>}
NowSeconds == {1000}            \* Math.floor(Date.now() / 1000)

TimestampChars(h) == IF h = NoValue THEN <<>> ELSE h[1]

\* what a sender may put in the signature header of a request with this timestamp and body
SignatureHeaders(timestamp, body) ==
    {NoValue,
     <<[kind |-> "empty", key |-> "", data |-> <<>>]>>,
     <<[kind |-> "short", key |-> "", data |-> <<"a", "b">>]>>,
     <<createHmac(TextbeltApiKey, TimestampChars(timestamp) \o stringify(body))>>,
     <<createHmac("another-key", TimestampChars(timestamp) \o stringify(body))>>,
     <<createHmac(TextbeltApiKey,
                  TimestampChars(timestamp) \o stringify([body EXCEPT !.text = <<<<"h", "i", "?">>>>]))>>,
     <<createHmac(TextbeltApiKey, <<"1", "0", "0", "0">> \o stringify(body))>>}

\* the registry when the request arrives: the sender has an active subscription
HookFile ==
    createSubscription(<<>>, [phoneNumber |-> Sender, apiKey |-> "canvas-key",
                              daysAhead |-> NoValue], 1).file

InitHook ==
    /\ file = HookFile
    /\ clock = 2
    /\ last = NoCall
    /\ RaceIdle
    /\ AggIdle
    /\ HookIdle
    /\ CycleIdle
    /\ BatchIdle

NextHook ==
    \/ \E timestamp \in TimestampHeaders, body \in HookBodies, now \in NowSeconds :
        \E signature \in SignatureHeaders(timestamp, body) :
            Receive([signature |-> signature, timestamp |-> timestamp, body |-> body], now)
    \/ GenerationReturns
    \/ GenerationThrows
    \/ \E success \in BOOLEAN : AnswerDispatchReturns(success)
    \/ AnswerDispatchThrows
    \/ \E success \in BOOLEAN : FallbackDispatchReturns(success)
    \/ FallbackDispatchThrows

SpecHook == InitHook /\ [][NextHook]_vars

(***************************************************************************)
(* SpecCycle: router.post("/send-assignment-reminder"), one cycle of       *)
(* aggregation, text generation and SMS dispatch.  The aggregation is the  *)
(* one of SpecAgg; the text-generation and SMS collaborators' answers are  *)
(* the inputs.                                                             *)
(***************************************************************************)
OpenAiPlaceholder == "your_openai_api_key_here"
OpenAiKeys == {NoValue, <<"">>, <<OpenAiPlaceholder>>, <<"sk-live">>}   \* process.env.OPENAI_API_KEY
DefaultDaysAhead == 7

validateConfiguration_anyKey(key) == TRUE

\* AIService.validateConfiguration
validateConfiguration(key) == key # NoValue /\ key[1] # "" /\ key[1] # OpenAiPlaceholder

\* the zod schema of POST /send-assignment-reminder
reminderSchemaOk(body) ==
    /\ Len(body.apiKey) >= MinApiKeyLen
    /\ Len(body.phoneNumber) >= MinPhoneLen
    /\ body.daysAhead # NoValue =>
            (body.daysAhead[1] >= MinDaysAhead /\ body.daysAhead[1] <= MaxDaysAhead)

\* toLocaleDateString with weekday, month, day, hour and minute: the year, the seconds
\* and the milliseconds are not printed
toLocaleDateString(due_at) == [d |-> due_at.d, minute |-> due_at.t \div 60000]

NoAssignmentsText ==
    "You have no upcoming assignments in the next 7 days. Great job staying on top of your work!"

\* CanvasService.formatAssignmentsForAI: the text as its first sentence and its bullet lines
formatAssignmentsForAI(assignments) ==
    IF Len(assignments) = 0
    THEN [sentence |-> NoAssignmentsText, bullets |-> <<>>]
    ELSE [sentence |-> "Here are your upcoming assignments:",
          bullets  |-> [k \in 1..Len(assignments) |->
                            [assignment |-> assignments[k].id,
                             courseName |-> assignments[k].courseName,
                             dueDate    |-> toLocaleDateString(assignments[k].due_at[1])]]]

\* error.message.includes(prefix), on a message given as its parts
mentions(error, prefix) == \E i \in 1..Len(error) : error[i] = prefix

\* the message the catch of the handler selects
errorMessage(error) ==
    IF mentions(error, "Canvas API Error")
    THEN <<"Failed to fetch assignments from Canvas. Please check your API key and permissions.">>
    ELSE IF mentions(error, "OpenAI API Error")
    THEN <<"Failed to generate reminder text. Please try again.">>
    ELSE IF mentions(error, "Textbelt API Error")
    THEN <<"Failed to send SMS. Please check the phone number and try again.">>
    ELSE error

\* what the three steps throw: the service's wrapped error or its "Unknown error"
CanvasErrors ==
    {<<"Canvas Service Error", "Canvas API Error">>,
     <<"Canvas Service Error", "Unknown error occurred while fetching courses from Canvas">>}
OpenAiErrors ==
    {<<"OpenAI API Error">>, <<"Unknown error occurred while calling OpenAI API">>}
TextbeltErrors ==
    {<<"Textbelt API Error">>, <<"Unknown error occurred while sending SMS">>}

\* calls is the handler's log of collaborator calls, each with its outcome so far
Calling(name) == [name |-> name, outcome |-> "pending"]

\* the awaited call has returned, or has thrown
returned(c) == [c EXCEPT !.calls[Len(c.calls)].outcome = "returned"]
threw(c) == [c EXCEPT !.calls[Len(c.calls)].outcome = "threw"]

\* next({status, message})
refused(c, status, message) ==
    [c EXCEPT !.pc = "done",
              !.response = <<[status |-> status, success |-> FALSE, message |-> message,
                              data |-> NoValue]>>]

\* the handler from the request to its first await: validation, configuration check and
\* the call of getUpcomingAssignments
received(c, origin, body, key) ==
    LET r == [c EXCEPT !.origin = origin, !.body = body, !.key = key] IN
    IF ~reminderSchemaOk(body)
    THEN refused(r, 400, <<"Invalid request body">>)
    ELSE IF ~validateConfiguration(key)
    THEN refused(r, 500, <<"OpenAI API key not configured. Please set OPENAI_API_KEY in environment variables.">>)
    ELSE [r EXCEPT !.pc = "aggregating", !.calls = Append(@, Calling("getUpcomingAssignments"))]

\* const { apiKey, phoneNumber, canvasUrl, daysAhead = 7 } = parsed.data
daysAheadOf(body) == IF body.daysAhead = NoValue THEN DefaultDaysAhead ELSE body.daysAhead[1]

aggregated_stopsWhenEmpty(c, canvasData) ==
    IF Len(canvasData.assignments) = 0
    THEN refused([returned(c) EXCEPT !.canvasData = <<canvasData>>], 500, <<"No upcoming assignments">>)
    ELSE [returned(c) EXCEPT !.pc = "generating",
                             !.canvasData = <<canvasData>>,
                             !.assignmentText = <<formatAssignmentsForAI(canvasData.assignments)>>,
                             !.calls = Append(@, Calling("generateResponse"))]

\* steps 2 and 3 up to the await: the digest is formatted and generateResponse is called
\* with the prompt that holds it
aggregated(c, canvasData) ==
    [returned(c) EXCEPT !.pc = "generating",
                        !.canvasData = <<canvasData>>,
                        !.assignmentText = <<formatAssignmentsForAI(canvasData.assignments)>>,
                        !.calls = Append(@, Calling("generateResponse"))]

\* step 4 up to the await: sendSms is called with the generated text
generated(c, aiResponse) ==
    [returned(c) EXCEPT !.pc = "sending",
                        !.sms = <<[phone |-> c.body.phoneNumber, message |-> aiResponse]>>,
                        !.calls = Append(@, Calling("sendSms"))]

\* res.json({success: true, ...}) once sendSms returned
dispatched(c, smsResponse) ==
    [returned(c) EXCEPT !.pc = "done",
        !.smsResponse = <<smsResponse>>,
        !.response = <<[status |-> 200, success |-> TRUE,
                        message |-> <<"Assignment reminder sent successfully!">>,
                        data |-> <<[assignmentsFound |-> Len(c.canvasData[1].assignments),
                                    coursesChecked   |-> Len(c.canvasData[1].courses),
                                    reminderText     |-> c.sms[1].message,
                                    smsDelivered     |-> smsResponse.success]>>]>>]

caught_sendsAnyway(c, error) ==
    [threw(c) EXCEPT !.pc = "sending",
                     !.sms = <<[phone |-> c.body.phoneNumber, message |-> "reminder unavailable"]>>,
                     !.calls = Append(@, Calling("sendSms"))]

\* the catch of the handler: next({status: 500, message: errorMessage})
caught(c, error) == refused(threw(c), 500, errorMessage(error))

\* the request arrives from a client
RequestReminder(body, key) ==
    /\ cyc.pc = "idle"
    /\ cyc' = received(cyc, 0, body, key)
    /\ agg' = (IF cyc'.pc = "aggregating" THEN called(agg, daysAheadOf(body)) ELSE agg)
    /\ UNCHANGED <<regVars, raceVars, hook, batch>>

\* await CanvasService.getUpcomingAssignments returns
AggregationReturns ==
    /\ cyc.pc = "aggregating"
    /\ agg.pc = "done"
    /\ cyc' = aggregated(cyc, agg.returned)
    /\ UNCHANGED <<regVars, raceVars, agg, hook, batch>>

\* await CanvasService.getUpcomingAssignments throws
AggregationThrows(error) ==
    /\ cyc.pc = "aggregating"
    /\ agg.pc = "failed"
    /\ cyc' = caught(cyc, error)
    /\ UNCHANGED <<regVars, raceVars, agg, hook, batch>>

\* await AIService.generateResponse returns
ReminderTextReturns(aiResponse) ==
    /\ cyc.pc = "generating"
    /\ cyc' = generated(cyc, aiResponse)
    /\ UNCHANGED <<regVars, raceVars, agg, hook, batch>>

\* await AIService.generateResponse throws
ReminderTextThrows(error) ==
    /\ cyc.pc = "generating"
    /\ cyc' = caught(cyc, error)
    /\ UNCHANGED <<regVars, raceVars, agg, hook, batch>>

\* await SmsService.sendSms returns the collaborator's 2xx body
ReminderSmsReturns(smsResponse) ==
    /\ cyc.pc = "sending"
    /\ cyc' = dispatched(cyc, smsResponse)
    /\ UNCHANGED <<regVars, raceVars, agg, hook, batch>>

\* await SmsService.sendSms throws
ReminderSmsThrows(error) ==
    /\ cyc.pc = "sending"
    /\ cyc' = caught(cyc, error)
    /\ UNCHANGED <<regVars, raceVars, agg, hook, batch>>

(***************************************************************************)
(* CronJobService.sendDailyReminders: one batch                            *)
(***************************************************************************)
MaxBatches == 2                 \* runs of sendDailyReminders: firings of the schedule and manual triggers

\* the body of the request the job posts for a subscription
postBody(subscription) ==
    [apiKey      |-> subscription.apiKey,
     phoneNumber |-> subscription.phoneNumber,
     daysAhead   |-> IF subscription.daysAhead = NoValue THEN <<DefaultDaysAhead>>
                     ELSE subscription.daysAhead]

\* the map callback up to its await: axios.post has been called.  promise is the state of the
\* callback's promise, value what it is fulfilled with, posted the number of axios.post
\* calls made for the subscription, served whether the endpoint's handler has started on
\* the request
newPost(subscription) ==
    [phoneNumber |-> subscription.phoneNumber, body |-> postBody(subscription),
     posted |-> 1, promise |-> "pending", served |-> FALSE, reply |-> NoValue, value |-> NoValue]

\* activeSubscriptions.map(async subscription => ...): every callback runs to its await
\* before map returns
launched(activeSubscriptions) ==
    [i \in 1..Len(activeSubscriptions) |-> newPost(activeSubscriptions[i])]

\* sendDailyReminders up to await Promise.allSettled(promises), or to its return when
\* there is no active subscription
fired(f, trigger) ==
    LET activeSubscriptions == getActiveSubscriptions(f) IN
    IF Len(activeSubscriptions) = 0
    THEN [pc |-> "returned", trigger |-> trigger, activeSubscriptions |-> activeSubscriptions,
          posts |-> <<>>, summary |-> NoValue, logged |-> 0]
    ELSE [pc |-> "awaiting", trigger |-> trigger, activeSubscriptions |-> activeSubscriptions,
          posts |-> launched(activeSubscriptions), summary |-> NoValue, logged |-> 0]

\* the HTTP answer to a post: errors handed to next are answered with their status
replyOf(c) ==
    [kind         |-> "response",
     status       |-> c.response[1].status,
     success      |-> c.response[1].success,
     smsDelivered |-> c.response[1].data # NoValue /\ c.response[1].data[1].smsDelivered]

NetworkError == [kind |-> "networkError", status |-> 0, success |-> FALSE, smsDelivered |-> FALSE]

\* axios.post resolves on a 2xx status and rejects otherwise
resolves(reply) == reply.kind = "response" /\ reply.status >= 200 /\ reply.status < 300

settled_inspectsBody(post, reply) ==
    [post EXCEPT !.promise = "fulfilled",
                 !.reply   = <<reply>>,
                 !.value   = <<[phoneNumber |-> post.phoneNumber,
                                success |-> resolves(reply) /\ reply.smsDelivered]>>]

\* the rest of the map callback: {phoneNumber, success: true} when axios.post resolved,
\* {phoneNumber, success: false, error} from the catch when it rejected
settled(post, reply) ==
    [post EXCEPT !.promise = "fulfilled",
                 !.reply   = <<reply>>,
                 !.value   = <<[phoneNumber |-> post.phoneNumber, success |-> resolves(reply)]>>]

allSettled_any(posts) == \E i \in 1..Len(posts) : posts[i].promise # "pending"

\* Promise.allSettled(promises) is settled
allSettled(posts) == \A i \in 1..Len(posts) : posts[i].promise # "pending"

\* results.filter(r => r.status === "fulfilled" && r.value.success).length
successful(posts) ==
    Cardinality({i \in 1..Len(posts) : posts[i].promise = "fulfilled" /\ posts[i].value[1].success})

\* the summary line and the return of sendDailyReminders
summarised(b) ==
    [b EXCEPT !.pc = "returned",
              !.summary = <<[successful |-> successful(b.posts),
                             failed     |-> Len(b.posts) - successful(b.posts)]>>,
              !.logged = @ + 1]

\* the collaborators' answers to one cycle
CanvasResults ==
    {[threw |-> TRUE, error |-> e, data |-> [assignments |-> <<>>, courses |-> <<>>]] :
        e \in CanvasErrors}
    \cup {[threw |-> FALSE, error |-> <<>>,
            data |-> [assignments |-> sort(SelectSeq(decorate(RawCourse(1), RawAssignments(RawCourse(1), dues)),
                                                      LAMBDA a : upcoming(a, 1000, DefaultDaysAhead))),
                      courses |-> getCourses(<<RawCourse(1)>>)]] :
        dues \in {<<>>, <<<<[d |-> 3, t |-> 1000]>>>>}}
AiResults ==
    {[threw |-> TRUE, error |-> e, response |-> ""] : e \in OpenAiErrors}
    \cup {[threw |-> FALSE, error |-> <<>>, response |-> "reminder text"]}
SmsResults ==
    {[threw |-> TRUE, error |-> e, success |-> FALSE] : e \in TextbeltErrors}
    \cup {[threw |-> FALSE, error |-> <<>>, success |-> ok] : ok \in BOOLEAN}

\* the handler run from the request to its response, given the collaborators' answers
runCycle(body, key, canvas, ai, sms) ==
    LET c1 == received(NewCycle, 0, body, key)
        c2 == IF c1.pc # "aggregating" THEN c1
              ELSE IF canvas.threw THEN caught(c1, canvas.error) ELSE aggregated(c1, canvas.data)
        c3 == IF c2.pc # "generating" THEN c2
              ELSE IF ai.threw THEN caught(c2, ai.error) ELSE generated(c2, ai.response)
        c4 == IF c3.pc # "sending" THEN c3
              ELSE IF sms.threw THEN caught(c3, sms.error) ELSE dispatched(c3, sms)
    IN c4

Fire_exclusive(trigger) ==
    /\ Len(batch) < MaxBatches
    /\ \A b \in 1..Len(batch) : batch[b].pc = "returned"
    /\ batch' = Append(batch, fired(file, trigger))
    /\ UNCHANGED <<regVars, raceVars, agg, hook, cyc>>

\* a firing of the schedule, or triggerManualReminders: sendDailyReminders runs to its
\* await, or to its return
Fire(trigger) ==
    /\ Len(batch) < MaxBatches
    /\ batch' = Append(batch, fired(file, trigger))
    /\ UNCHANGED <<regVars, raceVars, agg, hook, cyc>>

\* the only run of sendDailyReminders of a behaviour
FireOnce(trigger) ==
    /\ batch = <<>>
    /\ Fire(trigger)

\* the answers the endpoint can give to a request with this body, over every
\* configuration and every answer of the three collaborators
endpointReplies(body) ==
    {replyOf(runCycle(body, key, canvas, ai, sms)) :
        key \in OpenAiKeys, canvas \in CanvasResults, ai \in AiResults, sms \in SmsResults}

\* registries the job may find: empty, one active subscription, and two active
\* subscriptions around an inactive one
BatchFiles ==
    LET one == createSubscription(<<>>, [phoneNumber |-> "+14085551234", apiKey |-> "canvas-key",
                                         daysAhead |-> NoValue], 1).file
        two == createSubscription(one, [phoneNumber |-> "14085551234", apiKey |-> "canvas-key",
                                        daysAhead |-> <<14>>], 2).file
        three == createSubscription(two, [phoneNumber |-> "4085550000", apiKey |-> "other-key",
                                          daysAhead |-> <<1>>], 3).file
    IN {<<>>, unsubscribe(one, "+14085551234").file, one, unsubscribe(three, "14085551234").file}

\* the bodies the job posts for the subscriptions of these registries, and the endpoint's
\* possible answers to each
PostBodies ==
    UNION {{postBody(f[k]) : k \in 1..Len(f)} : f \in BatchFiles}

EndpointReplies == [body \in PostBodies |-> endpointReplies(body)]
Replies == UNION {EndpointReplies[body] : body \in PostBodies}

PostAnswered_checksRegistry(b, i, reply) ==
    /\ b \in 1..Len(batch)
    /\ i \in 1..Len(batch[b].posts)
    /\ batch[b].posts[i].promise = "pending"
    /\ ~batch[b].posts[i].served
    /\ reply \in EndpointReplies[batch[b].posts[i].body]
    /\ resolves(reply) => \E k \in 1..Len(file) :
            file[k].phoneNumber = batch[b].posts[i].phoneNumber /\ file[k].isActive
    /\ batch' = [batch EXCEPT ![b].posts[i] = settled(@, reply)]
    /\ UNCHANGED <<regVars, raceVars, agg, hook, cyc>>

\* the endpoint answers the post for subscription i of batch b
PostAnswered(b, i, reply) ==
    /\ b \in 1..Len(batch)
    /\ i \in 1..Len(batch[b].posts)
    /\ batch[b].posts[i].promise = "pending"
    /\ ~batch[b].posts[i].served
    /\ reply \in EndpointReplies[batch[b].posts[i].body]
    /\ batch' = [batch EXCEPT ![b].posts[i] = settled(@, reply)]
    /\ UNCHANGED <<regVars, raceVars, agg, hook, cyc>>

\* the post fails without an answer (connection refused, reset)
PostFails(b, i) ==
    /\ b \in 1..Len(batch)
    /\ i \in 1..Len(batch[b].posts)
    /\ batch[b].posts[i].promise = "pending"
    /\ ~batch[b].posts[i].served
    /\ batch' = [batch EXCEPT ![b].posts[i] = settled(@, NetworkError)]
    /\ UNCHANGED <<regVars, raceVars, agg, hook, cyc>>

\* Promise.allSettled resolves: the summary is logged and sendDailyReminders returns
Summarise(b) ==
    /\ b \in 1..Len(batch)
    /\ batch[b].pc = "awaiting"
    /\ allSettled(batch[b].posts)
    /\ batch' = [batch EXCEPT ![b] = summarised(@)]
    /\ UNCHANGED <<regVars, raceVars, agg, hook, cyc>>

\* the endpoint's handler starts on the post for subscription i of batch b
ServePost(b, i, key) ==
    /\ cyc.pc = "idle"
    /\ b \in 1..Len(batch)
    /\ i \in 1..Len(batch[b].posts)
    /\ batch[b].posts[i].promise = "pending"
    /\ ~batch[b].posts[i].served
    /\ cyc' = received(cyc, i, batch[b].posts[i].body, key)
    /\ agg' = (IF cyc'.pc = "aggregating" THEN called(agg, daysAheadOf(batch[b].posts[i].body)) ELSE agg)
    /\ batch' = [batch EXCEPT ![b].posts[i].served = TRUE]
    /\ UNCHANGED <<regVars, raceVars, hook>>

\* the handler's response reaches the job's axios.post
PostReturns(b, i) ==
    /\ cyc.pc = "done"
    /\ cyc.origin = i
    /\ b \in 1..Len(batch)
    /\ i \in 1..Len(batch[b].posts)
    /\ batch[b].posts[i].promise = "pending"
    /\ batch[b].posts[i].served
    /\ batch' = [batch EXCEPT ![b].posts[i] = settled(@, replyOf(cyc))]
    /\ UNCHANGED <<regVars, raceVars, agg, hook, cyc>>

\* the registry when the cycle runs: the sender subscribed, and a second phone number
\* subscribed and unsubscribed again
CycleFile ==
    unsubscribe(createSubscription(HookFile, [phoneNumber |-> "4085550000", apiKey |-> "canvas-key",
                                              daysAhead |-> <<1>>], 2).file,
                "4085550000").file

ReminderBodies ==
    [phoneNumber : {Sender, "555"}, apiKey : ApiKeys, daysAhead : {NoValue, <<1>>, <<31>>}]

InitCycle ==
    /\ file = CycleFile
    /\ clock = 3
    /\ last = NoCall
    /\ RaceIdle
    /\ AggIdle
    /\ HookIdle
    /\ CycleIdle
    /\ BatchIdle

NextCycle ==
    \/ \E body \in ReminderBodies, key \in OpenAiKeys : RequestReminder(body, key)
    \/ \E trigger \in {"cron", "manual"} : FireOnce(trigger)
    \/ \E b \in 1..MaxBatches, i \in 1..MaxClock, key \in OpenAiKeys : ServePost(b, i, key)
    \/ \E ids \in SUBSET (1..(MaxCourses + 2)) : CoursesReply(ById(ids))
    \/ CoursesFail
    \/ \E i \in 1..MaxCourses, n \in {0, 1} : AssignmentsReply(i, n)
    \/ \E i \in 1..MaxCourses : AssignmentsFail(i)
    \/ \E now \in Clocks : Join(now)
    \/ AggregationReturns
    \/ \E error \in CanvasErrors : AggregationThrows(error)
    \/ ReminderTextReturns("reminder text")
    \/ \E error \in OpenAiErrors : ReminderTextThrows(error)
    \/ \E success \in BOOLEAN : ReminderSmsReturns([success |-> success])
    \/ \E error \in TextbeltErrors : ReminderSmsThrows(error)
    \/ \E b \in 1..MaxBatches, i \in 1..MaxClock : PostReturns(b, i)
    \/ \E b \in 1..MaxBatches : Summarise(b)

SpecCycle == InitCycle /\ [][NextCycle]_vars

(***************************************************************************)
(* SpecBatch: runs of sendDailyReminders over a registry with active and   *)
(* inactive subscriptions.  The cycles of a batch are answered in any      *)
(* order, or never.                                                        *)
(***************************************************************************)
InitBatch ==
    /\ file \in BatchFiles
    /\ clock = MaxClock
    /\ last = NoCall
    /\ RaceIdle
    /\ AggIdle
    /\ HookIdle
    /\ CycleIdle
    /\ BatchIdle

NextBatch ==
    \/ \E trigger \in {"cron", "manual"} : Fire(trigger)
    \/ \E b \in 1..MaxBatches, i \in 1..MaxClock :
        \E reply \in Replies : PostAnswered(b, i, reply)
    \/ \E b \in 1..MaxBatches, i \in 1..MaxClock : PostFails(b, i)
    \/ \E b \in 1..MaxBatches : Summarise(b)

SpecBatch == InitBatch /\ [][NextBatch]_vars

(***************************************************************************)
(* SpecSnapshot: the registry's routes are served while batches run        *)
(***************************************************************************)
\* the registry before the first batch: one active subscription
SnapshotFile == CHOOSE f \in BatchFiles : Len(f) = 1 /\ f[1].isActive

\* the subscribe requests of the subscriber stored at the start and of one more
SnapshotBodies ==
    {[phoneNumber |-> "+14085551234", apiKey |-> "canvas-key", daysAhead |-> NoValue],
     [phoneNumber |-> "14085551234", apiKey |-> "canvas-key", daysAhead |-> <<14>>]}

\* the endpoint's answer to a cycle that sent its reminder
SnapshotReplies == {reply \in Replies : resolves(reply) /\ reply.smsDelivered}

InitSnapshot ==
    /\ file = SnapshotFile
    /\ clock = MaxClock - 1
    /\ last = NoCall
    /\ RaceIdle
    /\ AggIdle
    /\ HookIdle
    /\ CycleIdle
    /\ BatchIdle

NextSnapshot ==
    \/ \E body \in SnapshotBodies : PostSubscribe(body)
    \/ \E body \in SnapshotBodies : PostUnsubscribe([phoneNumber |-> body.phoneNumber])
    \/ \E body \in SnapshotBodies : DeleteSubscription(body.phoneNumber)
    \/ Fire("cron")
    \/ \E b \in 1..MaxBatches, i \in 1..MaxClock :
        \E reply \in SnapshotReplies : PostAnswered(b, i, reply)
    \/ \E b \in 1..MaxBatches, i \in 1..MaxClock : PostFails(b, i)
    \/ \E b \in 1..MaxBatches : Summarise(b)

SpecSnapshot == InitSnapshot /\ [][NextSnapshot]_vars

(***************************************************************************)
(* SpecStore: the registry over a document whose read can fail             *)
(***************************************************************************)
\* reads of the document start to fail: the file is locked, truncated or not JSON
ReadFault ==
    /\ ~isUnreadable(file)
    /\ file' = Unreadable(file)
    /\ UNCHANGED <<clock, last, notRegistry>>

\* the failure was transient: the document reads again as it was written
ReadRecovers ==
    /\ isUnreadable(file)
    /\ file' = file[1].unreadable
    /\ UNCHANGED <<clock, last, notRegistry>>

InitStore ==
    /\ file = CycleFile
    /\ clock = MaxClock - 1
    /\ last = NoCall
    /\ RaceIdle
    /\ AggIdle
    /\ HookIdle
    /\ CycleIdle
    /\ BatchIdle

NextStore ==
    \/ ReadFault
    \/ ReadRecovers
    \/ \E body \in SubscribeBodies : PostSubscribe(body)
    \/ \E phoneNumber \in PhoneNumbers : PostUnsubscribe([phoneNumber |-> phoneNumber])
    \/ \E phoneNumber \in PhoneNumbers : DeleteSubscription(phoneNumber)
    \/ \E phoneNumber \in PhoneNumbers : GetSubscriptionStatus(phoneNumber)
    \/ GetActive

SpecStore == InitStore /\ [][NextStore]_vars

(***************************************************************************)
(* Properties of the registry (Spec)                                       *)
(***************************************************************************)
HasRecord(f, phoneNumber) == \E i \in 1..Len(f) : f[i].phoneNumber = phoneNumber

RecordsOf(f, phoneNumber) == SelectSeq(f, LAMBDA sub : sub.phoneNumber = phoneNumber)

\* C1: createSubscription on a phone number that has a record, active or not, fails with
\* the duplicate error (409 from POST /subscribe) and leaves the document as it was; on a
\* phone number without a record it succeeds, appends one record with isActive = TRUE,
\* and getSubscription then returns that record.
C1_CreateDuplicateOrFresh ==
    (last.op = "subscribe" /\ last.status # 400) =>
        IF HasRecord(last.pre, last.phoneNumber)
        THEN /\ last.status = 409
             /\ ~last.ok
             /\ file = last.pre
        ELSE /\ last.status = 200
             /\ last.ok
             /\ Len(last.sub) = 1
             /\ last.sub[1].isActive
             /\ last.sub[1].phoneNumber = last.phoneNumber
             /\ file = Append(last.pre, last.sub[1])
             /\ getSubscription(file, last.phoneNumber) = last.sub

\* C1 witness: a create was refused for a phone number whose only record is inactive
C1_Witness ==
    /\ last.op = "subscribe"
    /\ last.status = 409
    /\ \E i \in 1..Len(last.pre) :
            last.pre[i].phoneNumber = last.phoneNumber /\ ~last.pre[i].isActive

\* C2: unsubscribe on a phone number without a record returns false (404 from
\* POST /unsubscribe) and leaves the document as it was; on a phone number with a record
\* it returns true, the record stays retrievable with only isActive changed to FALSE, and
\* getActiveSubscriptions no longer lists it.
C2_UnsubscribeDeactivates ==
    (last.op = "unsubscribe" /\ last.status # 400) =>
        IF ~HasRecord(last.pre, last.phoneNumber)
        THEN /\ ~last.ok
             /\ last.status = 404
             /\ file = last.pre
        ELSE /\ last.ok
             /\ last.status = 200
             /\ getSubscription(file, last.phoneNumber) =
                    <<[getSubscription(last.pre, last.phoneNumber)[1] EXCEPT !.isActive = FALSE]>>
             /\ ~HasRecord(getActiveSubscriptions(file), last.phoneNumber)

\* C2 witness: an active record was deactivated
C2_Witness ==
    /\ last.op = "unsubscribe"
    /\ last.ok
    /\ HasRecord(getActiveSubscriptions(last.pre), last.phoneNumber)

\* C3: the document holds at most one record, active or inactive, per phone number.
C3_OneRecordPerPhone ==
    \A i, j \in 1..Len(file) : file[i].phoneNumber = file[j].phoneNumber => i = j

\* C3 witness: two phone numbers are stored, one of them inactive, and a second create
\* for the inactive one has just been refused
C3_Witness ==
    /\ Len(file) = 2
    /\ last.op = "subscribe"
    /\ last.status = 409
    /\ \E i \in 1..Len(file) : file[i].phoneNumber = last.phoneNumber /\ ~file[i].isActive

\* f is g without its record at index k
Without(g, k) == [i \in 1..(Len(g) - 1) |-> IF i < k THEN g[i] ELSE g[i + 1]]

\* deleteSubscription just ran: false and the document as it was without a record,
\* true and the record removed with one
DeleteRemoves ==
    last.op = "delete" =>
        IF ~HasRecord(last.pre, last.phoneNumber)
        THEN ~last.ok /\ file = last.pre
        ELSE /\ last.ok
             /\ ~HasRecord(file, last.phoneNumber)
             /\ \E k \in 1..Len(last.pre) :
                    last.pre[k].phoneNumber = last.phoneNumber /\ file = Without(last.pre, k)

\* createSubscription just ran on a phone number whose record was inactive: it failed
InactiveStillBlocks ==
    (/\ last.op = "subscribe"
     /\ last.status # 400
     /\ \E i \in 1..Len(last.pre) :
            last.pre[i].phoneNumber = last.phoneNumber /\ ~last.pre[i].isActive)
        => (last.status = 409 /\ file = last.pre)

\* a create that follows a delete of the same phone number succeeds with an active record
CreateAfterDelete ==
    (/\ last.op = "delete"
     /\ last'.op = "subscribe"
     /\ last'.phoneNumber = last.phoneNumber
     /\ last'.status # 400)
        => /\ last'.status = 200
           /\ Len(last'.sub) = 1
           /\ last'.sub[1].isActive
           /\ getSubscription(file', last.phoneNumber) = last'.sub

\* C14: deleteSubscription(phone) returns false and leaves the document as it was when
\* the phone number has no record, and otherwise returns true and removes the record;
\* so a create on a phone number whose record was only deactivated fails, and a create
\* that follows the delete of that phone number succeeds and yields an active record.
C14_DeleteThenRecreate ==
    /\ [](DeleteRemoves /\ InactiveStillBlocks)
    /\ [][CreateAfterDelete]_vars

\* C14 witness: after create(p) and unsubscribe(p), deleteSubscription(p) has removed the
\* inactive record, and the clock still allows the next create
C14_Witness ==
    /\ last.op = "delete"
    /\ last.ok
    /\ \E i \in 1..Len(last.pre) :
            last.pre[i].phoneNumber = last.phoneNumber /\ ~last.pre[i].isActive
    /\ ~HasRecord(file, last.phoneNumber)
    /\ clock < MaxClock

(***************************************************************************)
(* Properties of overlapping registry requests (SpecRace)                  *)
(***************************************************************************)
Succeeded(r) == reqs[r].pc = "done" /\ reqs[r].status = 200

\* the document shows the effect of request r
Reflected(r) ==
    IF reqs[r].op = "subscribe"
    THEN \E i \in 1..Len(file) : file[i] = [reqs[r].sub[1] EXCEPT !.isActive = file[i].isActive]
    ELSE \E i \in 1..Len(file) :
            file[i].phoneNumber = reqs[r].body.phoneNumber /\ ~file[i].isActive

\* r1 and r2 were both in flight at the same time
Overlapped(r1, r2) == r1 \in reqs[r2].overlaps \/ r2 \in reqs[r1].overlaps

\* the pairs the claim names: two creates on different phone numbers, or a create and a
\* deactivation
RacingPair(r1, r2) ==
    /\ r1 # r2
    /\ Overlapped(r1, r2)
    /\ Succeeded(r1)
    /\ Succeeded(r2)
    /\ \/ /\ reqs[r1].op = "subscribe"
          /\ reqs[r2].op = "subscribe"
          /\ reqs[r1].body.phoneNumber # reqs[r2].body.phoneNumber
       \/ /\ reqs[r1].op = "subscribe"
          /\ reqs[r2].op = "unsubscribe"

InWindow(a) ==
    /\ a.due_at # NoValue
    /\ agg.now <= getTime(a.due_at[1])
    /\ getTime(a.due_at[1]) <= agg.now + agg.daysAhead * MsPerDay

\* result entry x is the fetched assignment a
SameAssignment(x, a) == x.course_id = a.course_id /\ x.id = a.id /\ x.due_at = a.due_at

Occurrences(a) ==
    Cardinality({j \in 1..Len(agg.returned.assignments) :
                    SameAssignment(agg.returned.assignments[j], a)})

\* C5: of the assignments the course-data API returned, getUpcomingAssignments returns
\* each one due within [now, now + daysAhead * 24 h] exactly once, and returns none
\* that is due outside the window or has no due timestamp, and nothing else.
C5_ExactlyTheWindow ==
    agg.pc = "done" =>
        /\ \A k \in 1..Len(Fetched) :
                Occurrences(Fetched[k]) = (IF InWindow(Fetched[k]) THEN 1 ELSE 0)
        /\ \A j \in 1..Len(agg.returned.assignments) :
                \E k \in 1..Len(Fetched) : SameAssignment(agg.returned.assignments[j], Fetched[k])

\* C5 witness: two courses, the first with one assignment due in 3 days, the second with
\* one due in 20 days, daysAhead = 7: exactly the first course's assignment is returned
C5_Witness ==
    /\ agg.pc = "done"
    /\ agg.daysAhead = 7
    /\ agg.now = 1000
    /\ Len(agg.replies) = 2
    /\ Len(agg.replies[1].raw) = 1
    /\ agg.replies[1].raw[1].due_at = <<[d |-> 3, t |-> 1000]>>
    /\ Len(agg.replies[2].raw) = 1
    /\ agg.replies[2].raw[1].due_at = <<[d |-> 20, t |-> 1000]>>
    /\ Len(agg.returned.assignments) = 1
    /\ agg.returned.assignments[1].course_id = agg.courses[1].id

\* C6: the returned list is in non-decreasing order of due timestamp.
C6_SortedByDue ==
    agg.pc = "done" =>
        \A j, k \in 1..Len(agg.returned.assignments) :
            j < k => getTime(agg.returned.assignments[j].due_at[1])
                        <= getTime(agg.returned.assignments[k].due_at[1])

\* C6 witness: the API returned two in-window assignments latest first, and both are in
\* the result
C6_Witness ==
    /\ agg.pc = "done"
    /\ Len(agg.returned.assignments) >= 2
    /\ \E j, k \in 1..Len(Fetched) :
            /\ j < k
            /\ InWindow(Fetched[j])
            /\ InWindow(Fetched[k])
            /\ getTime(Fetched[j].due_at[1]) > getTime(Fetched[k].due_at[1])

\* C7: once the course list was fetched, the aggregation succeeds whatever subset of the
\* per-course fetches fails: it fails only when the course-list fetch failed; the failed
\* courses contribute nothing, every in-window assignment of the other courses is
\* returned, and the returned course list is the fetched course list.
C7_PerCourseFailureSwallowed ==
    /\ agg.pc = "failed" => agg.coursesFetch = "failed"
    /\ agg.pc = "done" =>
        /\ agg.returned.courses = agg.courses
        /\ \A i \in 1..Len(agg.replies) :
            IF agg.replies[i].state = "failed"
            THEN \A j \in 1..Len(agg.returned.assignments) :
                    agg.returned.assignments[j].course_id # agg.courses[i].id
            ELSE \A k \in 1..Len(agg.replies[i].raw) :
                    InWindow(agg.replies[i].raw[k]) =>
                        \E j \in 1..Len(agg.returned.assignments) :
                            SameAssignment(agg.returned.assignments[j], agg.replies[i].raw[k])

\* C7 witness: of two courses one fetch failed, and the other course's in-window
\* assignment is returned together with both courses
C7_Witness ==
    /\ agg.pc = "done"
    /\ Len(agg.returned.courses) = 2
    /\ \E i \in 1..Len(agg.replies) : agg.replies[i].state = "failed"
    /\ Len(agg.returned.assignments) >= 1

(***************************************************************************)
(* Properties of the webhook handler (SpecHook)                            *)
(***************************************************************************)
\* the signature header is the HMAC, under the shared secret, of the request's own
\* timestamp followed by its own payload
SignedWithSecret(req) ==
    /\ req.signature # NoValue
    /\ req.timestamp # NoValue
    /\ req.signature[1] = [kind |-> "hex", key |-> TextbeltApiKey,
                           data |-> req.timestamp[1] \o stringify(req.body)]

HeaderGiven(h) == h # NoValue /\ h[1] # <<>>
SignatureGiven(h) == h # NoValue /\ h[1].kind # "empty"

\* the number the timestamp header spells, NoValue when it spells none
Seconds(req) == IF req.timestamp = NoValue THEN NoValue ELSE parseInt(req.timestamp[1])

\* C8 as amended: a request is passed on to reply routing only if its signature
\* verifies against the shared secret and its timestamp is not more than 900 seconds
\* older than the current time (a timestamp in the future, or one that spells no number,
\* passes the age check); the exception is a request whose signature header or whose
\* timestamp header is missing or empty, one of them or both, for which verification is
\* skipped.
C8_RoutedOnlyIfVerifiedOrUnsigned ==
    hook.routed =>
        \/ ~SignatureGiven(hook.req.signature)
        \/ ~HeaderGiven(hook.req.timestamp)
        \/ /\ SignedWithSecret(hook.req)
           /\ Seconds(hook.req) # NoValue => hook.now - Seconds(hook.req)[1] <= MaxAgeSeconds

\* C8 witness: a request signed with the secret, exactly 900 seconds old, was passed on
C8_Witness ==
    /\ hook.routed
    /\ SignedWithSecret(hook.req)
    /\ Seconds(hook.req) # NoValue
    /\ hook.now - Seconds(hook.req)[1] = MaxAgeSeconds

\* C8 as stated: a request is passed on only if its signature verifies and its timestamp
\* is within 900 seconds of the current time, except when it carries neither header
\* (an empty header counted as not carried).
C8_Original_NeitherHeaderOnly ==
    hook.routed =>
        \/ ~SignatureGiven(hook.req.signature) /\ ~HeaderGiven(hook.req.timestamp)
        \/ /\ SignedWithSecret(hook.req)
           /\ Seconds(hook.req) # NoValue
           /\ hook.now - Seconds(hook.req)[1] <= MaxAgeSeconds
           /\ Seconds(hook.req)[1] - hook.now <= MaxAgeSeconds

\* the text holds s, t, o, p in a row, each in either case
ContainsStop(text) ==
    \E i \in 1..(Len(text) - 3) :
        /\ text[i] \in {"s", "S"}
        /\ text[i + 1] \in {"t", "T"}
        /\ text[i + 2] \in {"o", "O"}
        /\ text[i + 3] \in {"p", "P"}

\* C9: for an accepted event whose text contains "stop" in any letter case the handler
\* answers {success: true, message: "User opted out"}, calls no text generation,
\* dispatches no SMS and leaves the registry as it was.
C9_OptOutShortCircuit ==
    (hook.routed /\ hook.req.body.text # NoValue /\ ContainsStop(hook.req.body.text[1])) =>
        /\ hook.pc = "done"
        /\ hook.response = [status |-> 200, message |-> "User opted out"]
        /\ hook.aiCalls = 0
        /\ hook.sms = <<>>
        /\ file = HookFile

\* C9 witness: an accepted event with "stop" in mixed case inside a longer text was
\* answered as an opt-out while its sender's subscription is still active
C9_Witness ==
    /\ hook.routed
    /\ hook.req.body.text = <<<<"n", "o", "n", "S", "t", "O", "p">>>>
    /\ hook.response.message = "User opted out"
    /\ \E i \in 1..Len(file) : file[i].phoneNumber = hook.req.body.fromNumber /\ file[i].isActive

\* an accepted event that is a question, and whose handler has finished
QuestionHandled ==
    /\ hook.pc = "done"
    /\ hook.routed
    /\ hook.req.body.text # NoValue
    /\ ~ContainsStop(hook.req.body.text[1])

Delivered ==
    \E i \in 1..Len(hook.sms) :
        hook.sms[i].phone = hook.req.body.fromNumber /\ hook.sms[i].outcome = "delivered"

\* C10 as amended: for every accepted question at least one SMS dispatch to fromNumber
\* has been attempted before the handler finishes, and at most two: the generated answer
\* when generation succeeded, and the fixed fallback when generation threw or the
\* answer's dispatch threw.  A message is delivered exactly when the last of these
\* dispatches is answered with success = true; the handler responds success unless the
\* fallback dispatch threw, and then it responds 500.
C10_QuestionGetsDispatchAttempt ==
    QuestionHandled =>
        LET n == Len(hook.sms) IN
        /\ n \in {1, 2}
        /\ \A i \in 1..n : hook.sms[i].phone = hook.req.body.fromNumber
        /\ \A i \in 1..(n - 1) : hook.sms[i].message = "answer" /\ hook.sms[i].outcome = "threw"
        /\ n = 2 => hook.sms[n].message = "fallback"
        /\ Delivered <=> hook.sms[n].outcome = "delivered"
        /\ hook.response.status = (IF hook.sms[n].message = "fallback" /\ hook.sms[n].outcome = "threw"
                                   THEN 500 ELSE 200)

\* C10 witness: generation threw and the fallback was delivered to the sender
C10_Witness ==
    /\ QuestionHandled
    /\ Len(hook.sms) = 1
    /\ hook.sms[1] = [phone |-> hook.req.body.fromNumber, message |-> "fallback",
                      outcome |-> "delivered"]

\* C10 as stated: when the handler of an accepted question has finished, at least one
\* SMS has been delivered to fromNumber.
C10_Original_AlwaysDelivered ==
    QuestionHandled => Delivered

\* the text-generation call threw, or the dispatch of the generated answer threw
AnswerFailed ==
    \/ hook.generation = "threw"
    \/ \E i \in 1..Len(hook.sms) : hook.sms[i].message = "answer" /\ hook.sms[i].outcome = "threw"

FallbackDispatches == {i \in 1..Len(hook.sms) : hook.sms[i].message = "fallback"}

\* C11: when the text-generation call, or the dispatch of the generated answer, throws
\* while a question is handled, the handler attempts exactly one dispatch of the fixed
\* fallback message, to fromNumber, and when that dispatch did not throw the handler
\* responds with success and not with an error.
C11_FallbackExactlyOnce ==
    AnswerFailed =>
        /\ Cardinality(FallbackDispatches) = 1
        /\ \A i \in FallbackDispatches :
                /\ i = Len(hook.sms)
                /\ hook.sms[i].phone = hook.req.body.fromNumber
                /\ hook.sms[i].outcome \in {"delivered", "refused"} =>
                        /\ hook.pc = "done"
                        /\ hook.response = [status |-> 200, message |-> "Reply processed and sent"]

\* C11 witness: the dispatch of the generated answer threw, the fallback dispatch
\* returned, and the handler responded with success
C11_Witness ==
    /\ hook.pc = "done"
    /\ hook.generation = "returned"
    /\ Len(hook.sms) = 2
    /\ hook.sms[1].message = "answer"
    /\ hook.sms[1].outcome = "threw"
    /\ hook.sms[2].message = "fallback"
    /\ hook.sms[2].outcome = "delivered"
    /\ hook.response.status = 200

\* the request carries both headers with a value, and either its signature is not the
\* HMAC of its timestamp and payload under the secret, or it is and the timestamp is more
\* than 900 seconds old
MustBeRejected ==
    /\ hook.pc # "idle"
    /\ SignatureGiven(hook.req.signature)
    /\ HeaderGiven(hook.req.timestamp)
    /\ \/ ~SignedWithSecret(hook.req)
       \/ /\ Seconds(hook.req) # NoValue
          /\ hook.now - Seconds(hook.req)[1] > MaxAgeSeconds

\* C16: a webhook request that carries both headers and whose signature does not match
\* the HMAC of timestamp + payload (a payload changed after signing, for one), or whose
\* signature matches but whose timestamp is more than 900 seconds old, is rejected with
\* status 401: no text generation is called for it, no SMS is dispatched and the registry
\* stays as it was.
C16_UnverifiedRejected ==
    MustBeRejected =>
        /\ hook.pc = "done"
        /\ ~hook.routed
        /\ hook.response.status = 401
        /\ hook.aiCalls = 0
        /\ hook.generation = "none"
        /\ hook.sms = <<>>
        /\ file = HookFile

\* C16 witness: a question whose payload was changed after it was signed with the
\* secret, with a fresh timestamp, was rejected with 401
C16_Witness ==
    /\ hook.pc = "done"
    /\ hook.response = [status |-> 401, message |-> "Invalid webhook signature"]
    /\ hook.req.signature # NoValue
    /\ hook.req.signature[1].kind = "hex"
    /\ hook.req.signature[1].key = TextbeltApiKey
    /\ hook.req.timestamp = <<<<"1", "0", "0", "0">>>>
    /\ hook.req.body.text = <<<<"s", "t", "o">>>>
    /\ hook.req.signature[1].data # hook.req.timestamp[1] \o stringify(hook.req.body)

(***************************************************************************)
(* Properties of the reminder cycle (SpecCycle)                            *)
(***************************************************************************)
StepOrder == <<"getUpcomingAssignments", "generateResponse", "sendSms">>

Called(name) == \E k \in 1..Len(cyc.calls) : cyc.calls[k].name = name
Outcome(name) == cyc.calls[CHOOSE k \in 1..Len(cyc.calls) : cyc.calls[k].name = name].outcome

\* C13: within one cycle the steps are called in the order course fetch, aggregation,
\* text generation, SMS dispatch, each only after the one before it succeeded: the
\* per-course fetches follow the course-list fetch, text generation is called only after
\* the aggregation returned and the SMS dispatch only after text generation returned;
\* so a cycle whose course-list fetch or whose text generation failed dispatches no SMS
\* and ends with an error (status 500) instead of a success response.
C13_StrictStepOrder ==
    /\ Len(cyc.calls) <= Len(StepOrder)
    /\ \A k \in 1..Len(cyc.calls) :
            /\ cyc.calls[k].name = StepOrder[k]
            /\ k < Len(cyc.calls) => cyc.calls[k].outcome = "returned"
    /\ agg.replies # <<>> => agg.coursesFetch = "ok"
    /\ Called("generateResponse") =>
            (agg.pc = "done" /\ agg.coursesFetch = "ok" /\ cyc.canvasData = <<agg.returned>>)
    /\ (agg.coursesFetch = "failed" \/ (Called("generateResponse") /\ Outcome("generateResponse") = "threw")) =>
            /\ ~Called("sendSms")
            /\ cyc.sms = NoValue
            /\ cyc.pc \in {"aggregating", "done"}
            /\ cyc.pc = "done" => (cyc.response[1].status = 500 /\ ~cyc.response[1].success)

\* C13 witness: the aggregation returned, text generation threw, and the cycle ended
\* with status 500 without an SMS dispatch
C13_Witness ==
    /\ cyc.pc = "done"
    /\ Len(cyc.calls) = 2
    /\ cyc.calls[1].outcome = "returned"
    /\ cyc.calls[2].outcome = "threw"
    /\ cyc.sms = NoValue
    /\ cyc.response[1].status = 500

\* the aggregation returned no upcoming assignment
NothingUpcoming == cyc.canvasData # NoValue /\ Len(cyc.canvasData[1].assignments) = 0

\* C15: formatAssignmentsForAI([]) is exactly the fixed "no assignments" sentence, and a
\* cycle whose aggregation yields no upcoming assignment is not an error: text
\* generation is called with that sentence as the digest, and when it returns one SMS is
\* dispatched and the response reports success with assignmentsFound = 0.
C15_EmptyDigestStillSent ==
    /\ formatAssignmentsForAI(<<>>) = [sentence |-> NoAssignmentsText, bullets |-> <<>>]
    /\ NothingUpcoming =>
        /\ cyc.assignmentText = <<[sentence |-> NoAssignmentsText, bullets |-> <<>>]>>
        /\ Called("generateResponse")
        /\ Outcome("getUpcomingAssignments") = "returned"
        /\ Outcome("generateResponse") = "returned" =>
                /\ Called("sendSms")
                /\ Cardinality({k \in 1..Len(cyc.calls) : cyc.calls[k].name = "sendSms"}) = 1
                /\ cyc.sms # NoValue
        /\ (Called("sendSms") /\ Outcome("sendSms") = "returned") =>
                /\ cyc.pc = "done"
                /\ cyc.response[1].status = 200
                /\ cyc.response[1].success
                /\ cyc.response[1].data[1].assignmentsFound = 0

\* C15 witness: a course was checked, its only assignment is due after the window, and
\* the cycle ended with success, one SMS delivered and assignmentsFound = 0
C15_Witness ==
    /\ cyc.pc = "done"
    /\ NothingUpcoming
    /\ Len(Fetched) = 1
    /\ cyc.response[1].status = 200
    /\ cyc.response[1].data[1].assignmentsFound = 0
    /\ cyc.response[1].data[1].coursesChecked = 1
    /\ cyc.response[1].data[1].smsDelivered

(***************************************************************************)
(* Properties of the batch job (SpecBatch)                                 *)
(***************************************************************************)
\* the posts batch b made for a phone number
PostsFor(b, phoneNumber) ==
    {i \in 1..Len(batch[b].posts) : batch[b].posts[i].phoneNumber = phoneNumber}

\* the endpoint may still answer post i of batch b
CanComplete(b, i) ==
    ENABLED (\E reply \in EndpointReplies[batch[b].posts[i].body] : PostAnswered(b, i, reply))

\* C12: in every batch run, started by the schedule or by the manual trigger, each
\* subscription that is active when the batch reads the registry gets exactly one cycle
\* attempt and each inactive one gets none; whatever the other cycles of the batch did
\* (failed, succeeded, or never completed) a cycle that has not completed can still
\* complete, and the batch procedure is either waiting for its cycles or has returned:
\* it never raises.
C12_BatchIsolation ==
    \A b \in 1..Len(batch) :
        /\ \A k \in 1..Len(file) :
                Cardinality(PostsFor(b, file[k].phoneNumber)) = (IF file[k].isActive THEN 1 ELSE 0)
        /\ \A i \in 1..Len(batch[b].posts) :
                /\ HasRecord(file, batch[b].posts[i].phoneNumber)
                /\ batch[b].posts[i].promise = "pending" => CanComplete(b, i)
        /\ batch[b].pc \in {"awaiting", "returned"}

\* C12 witness: in a batch started by the manual trigger over two active subscriptions
\* and an inactive one, the first cycle failed, the second has not completed, and in
\* another batch the first cycle has not completed while the second succeeded
C12_Witness ==
    /\ Len(file) = 3
    /\ \E b1, b2 \in 1..Len(batch) :
        /\ batch[b1].trigger = "manual"
        /\ Len(batch[b1].posts) = 2
        /\ batch[b1].posts[1].promise = "fulfilled"
        /\ ~batch[b1].posts[1].value[1].success
        /\ batch[b1].posts[2].promise = "pending"
        /\ batch[b2].trigger = "cron"
        /\ batch[b2].posts[1].promise = "pending"
        /\ batch[b2].posts[2].promise = "fulfilled"
        /\ batch[b2].posts[2].value[1].success

Settled(b) == {i \in 1..Len(batch[b].posts) : batch[b].posts[i].promise # "pending"}

\* C17: in each batch with at least one active subscription all cycles are launched
\* before any is awaited, the summary is logged exactly once, and only after every
\* launched cycle has settled, and its successful and failed counts sum to the number of
\* subscriptions read at the start of the batch.
C17_SummaryAfterAllSettled ==
    \A b \in 1..Len(batch) :
        Len(batch[b].activeSubscriptions) > 0 =>
            /\ Len(batch[b].posts) = Len(batch[b].activeSubscriptions)
            /\ batch[b].logged = (IF batch[b].pc = "returned" THEN 1 ELSE 0)
            /\ batch[b].logged = 1 =>
                    /\ Settled(b) = 1..Len(batch[b].posts)
                    /\ batch[b].summary # NoValue
                    /\ batch[b].summary[1].successful \in 0..Len(batch[b].activeSubscriptions)
                    /\ batch[b].summary[1].successful + batch[b].summary[1].failed
                            = Len(batch[b].activeSubscriptions)
                    /\ batch[b].summary[1].successful
                            = Cardinality({i \in Settled(b) : resolves(batch[b].posts[i].reply[1])})
            /\ batch[b].logged = 0 => batch[b].summary = NoValue

\* C17 witness: a batch over two active subscriptions has logged its summary, one
\* successful and one failed, while another batch is still waiting with one of its two
\* cycles settled
C17_Witness ==
    \E b1, b2 \in 1..Len(batch) :
        /\ batch[b1].pc = "returned"
        /\ Len(batch[b1].activeSubscriptions) = 2
        /\ batch[b1].summary = <<[successful |-> 1, failed |-> 1]>>
        /\ batch[b2].pc = "awaiting"
        /\ Cardinality(Settled(b2)) = 1

(***************************************************************************)
(* Properties of a cycle the batch job started (SpecCycle)                 *)
(***************************************************************************)

CallsOf(name) == Cardinality({k \in 1..Len(cyc.calls) : cyc.calls[k].name = name})

\* C18: no step is retried.  Within one cycle the course-list fetch, each course's
\* assignment fetch, the text-generation call and the SMS dispatch are each invoked at
\* most once, whether they succeed or fail, and the batch posts at most once for a
\* subscriber, also when that subscriber's cycle failed.
C18_NoRetry ==
    /\ agg.coursesCalls <= 1
    /\ \A i \in 1..Len(agg.replies) : agg.replies[i].calls <= 1
    /\ \A k \in 1..Len(StepOrder) : CallsOf(StepOrder[k]) <= 1
    /\ \A b \in 1..Len(batch) :
            /\ \A k \in 1..Len(file) : Cardinality(PostsFor(b, file[k].phoneNumber)) <= 1
            /\ \A i \in 1..Len(batch[b].posts) : batch[b].posts[i].posted <= 1

\* C18 witness: in the batch's cycle for its subscriber one course's assignment fetch
\* failed and the SMS dispatch threw; the cycle ended with status 500, and the batch
\* counted the subscriber as failed and returned
C18_Witness ==
    /\ cyc.pc = "done"
    /\ cyc.origin = 1
    /\ \E i \in 1..Len(agg.replies) : agg.replies[i].state = "failed"
    /\ Called("sendSms")
    /\ Outcome("sendSms") = "threw"
    /\ cyc.response[1].status = 500
    /\ Len(batch) = 1
    /\ batch[1].pc = "returned"
    /\ batch[1].summary = <<[successful |-> 0, failed |-> 1]>>

\* process.env.OPENAI_API_KEY is unset, empty or still the placeholder of the example file
KeyMissing == cyc.key = NoValue \/ cyc.key[1] = "" \/ cyc.key[1] = OpenAiPlaceholder

\* C19: a request to POST /send-assignment-reminder whose body is invalid is answered 400
\* and one received while the AI key is not configured is answered 500, and in both cases
\* no collaborator has been called: no Canvas fetch, no text generation, no SMS dispatch.
C19_ChecksBeforeFirstFetch ==
    (cyc.pc # "idle" /\ (~reminderSchemaOk(cyc.body) \/ KeyMissing)) =>
        /\ cyc.pc = "done"
        /\ cyc.response[1].status = (IF ~reminderSchemaOk(cyc.body) THEN 400 ELSE 500)
        /\ ~cyc.response[1].success
        /\ cyc.calls = <<>>
        /\ agg.pc = "idle"
        /\ agg.coursesCalls = 0
        /\ cyc.canvasData = NoValue
        /\ cyc.assignmentText = NoValue
        /\ cyc.sms = NoValue

\* C19 witness: a valid body was received while the key was the placeholder; the handler
\* answered 500 having called nothing
C19_Witness ==
    /\ cyc.pc = "done"
    /\ reminderSchemaOk(cyc.body)
    /\ cyc.key = <<OpenAiPlaceholder>>
    /\ cyc.response[1].status = 500
    /\ cyc.calls = <<>>

\* sendSms returned Textbelt's 2xx answer, and the answer says success: false
Undelivered == cyc.smsResponse # NoValue /\ ~cyc.smsResponse[1].success

\* C20: a 2xx answer of the SMS collaborator that carries success = false still makes the
\* cycle a success: the endpoint responds 200 with success: true and smsDelivered false,
\* and the batch job that posted the request counts the subscriber among the successful.
C20_UndeliveredCountsAsSuccess ==
    Undelivered =>
        /\ cyc.pc = "done"
        /\ Outcome("sendSms") = "returned"
        /\ cyc.response[1].status = 200
        /\ cyc.response[1].success
        /\ cyc.response[1].data # NoValue
        /\ ~cyc.response[1].data[1].smsDelivered
        /\ \A b \in 1..Len(batch) :
                \A i \in 1..Len(batch[b].posts) :
                    (cyc.origin = i /\ batch[b].posts[i].promise = "fulfilled") =>
                        /\ batch[b].posts[i].value[1].success
                        /\ batch[b].pc = "returned" =>
                                batch[b].summary = <<[successful |-> 1, failed |-> 0]>>

\* C20 witness: the batch's cycle for its subscriber got success: false from Textbelt, and
\* the batch returned with the subscriber counted as successful
C20_Witness ==
    /\ Undelivered
    /\ cyc.origin = 1
    /\ Len(batch) = 1
    /\ batch[1].pc = "returned"
    /\ batch[1].posts[1].reply = <<[kind |-> "response", status |-> 200, success |-> TRUE,
                                    smsDelivered |-> FALSE]>>
    /\ batch[1].summary = <<[successful |-> 1, failed |-> 0]>>

(***************************************************************************)
(* Properties of batches run while the registry changes (SpecSnapshot)     *)
(***************************************************************************)
\* the stored records with isActive = true
ActiveIn(f) == SelectSeq(f, LAMBDA sub : sub.isActive)

\* the endpoint may still answer post i of batch b with a 2xx
CanDeliver(b, i) ==
    ENABLED (\E reply \in EndpointReplies[batch[b].posts[i].body] :
                resolves(reply) /\ PostAnswered(b, i, reply))

\* the posts of each batch are those of the subscriptions it read, and each of them can
\* be answered with a reminder sent whatever the registry holds by then
PostsOfSnapshot ==
    \A b \in 1..Len(batch) :
        /\ Len(batch[b].posts) = Len(batch[b].activeSubscriptions)
        /\ \A i \in 1..Len(batch[b].posts) :
                /\ batch[b].posts[i].phoneNumber = batch[b].activeSubscriptions[i].phoneNumber
                /\ batch[b].posts[i].body = postBody(batch[b].activeSubscriptions[i])
                /\ batch[b].posts[i].promise = "pending" => CanDeliver(b, i)

\* a step keeps what the earlier batches read and whom they post for, a step that changes
\* the registry changes no batch, and a batch that starts reads the active records stored
\* at that moment
SnapshotTaken ==
    /\ Len(batch') >= Len(batch)
    /\ \A b \in 1..Len(batch) :
            /\ batch'[b].activeSubscriptions = batch[b].activeSubscriptions
            /\ Len(batch'[b].posts) = Len(batch[b].posts)
    /\ file' # file => batch' = batch
    /\ Len(batch') > Len(batch) =>
            /\ Len(batch') = Len(batch) + 1
            /\ batch'[Len(batch')].activeSubscriptions = ActiveIn(file)

\* C21: a batch works on the snapshot of active subscriptions read at its start.  A
\* subscription of the snapshot that is deactivated or deleted before its cycle dispatches
\* keeps its post in the batch and can still receive the reminder; a subscription created
\* after the read has no post in that batch and is read by the next batch.
C21_BatchWorksOnSnapshot == [](PostsOfSnapshot) /\ [][SnapshotTaken]_vars

\* C21 witness: the first batch sent its reminder to a subscriber whose record is no
\* longer active, and has no post for a subscriber who is active now; the second batch
\* read the registry later: it posts for the new subscriber and not for the old one
C21_Witness ==
    /\ Len(batch) = 2
    /\ \E p, q \in PhoneNumbers :
        /\ p # q
        /\ ~\E k \in 1..Len(file) : file[k].phoneNumber = p /\ file[k].isActive
        /\ \E k \in 1..Len(file) : file[k].phoneNumber = q /\ file[k].isActive
        /\ \E i \in PostsFor(1, p) :
                /\ batch[1].posts[i].promise = "fulfilled"
                /\ batch[1].posts[i].value[1].success
        /\ PostsFor(1, q) = {}
        /\ PostsFor(2, p) = {}
        /\ PostsFor(2, q) # {}

(***************************************************************************)
(* Properties of overlapping batches (SpecBatch)                           *)
(***************************************************************************)
\* batch b is waiting for its cycles
InProgress(b) == batch[b].pc = "awaiting"

\* the posts of batch b for a phone number that have not been answered
InFlight(b, phoneNumber) ==
    {i \in PostsFor(b, phoneNumber) : batch[b].posts[i].promise = "pending"}

\* the posts of batch b for a phone number whose cycle sent the reminder
Reminded(b, phoneNumber) ==
    {i \in PostsFor(b, phoneNumber) :
        /\ batch[b].posts[i].promise = "fulfilled"
        /\ batch[b].posts[i].reply[1].kind = "response"
        /\ batch[b].posts[i].reply[1].smsDelivered}

\* C22: batches are not mutually exclusive.  While earlier batches are in progress the
\* schedule and the manual trigger can both start another batch; every batch, whatever
\* the others are doing, is complete: one cycle for each active subscriber, each of which
\* can send its reminder while the cycles of the other batches are in flight.
C22_BatchesOverlap ==
    /\ Len(batch) < MaxBatches => (ENABLED Fire("manual") /\ ENABLED Fire("cron"))
    /\ \A b1, b2 \in 1..Len(batch) :
            /\ batch[b1].activeSubscriptions = batch[b2].activeSubscriptions
            /\ Len(batch[b2].posts) = Len(batch[b1].activeSubscriptions)
            /\ \A i \in 1..Len(batch[b2].posts) :
                    batch[b2].posts[i].promise = "pending" => CanDeliver(b2, i)

\* C22 witness: a manual trigger started a second batch while the first is still in
\* progress; one subscriber has a cycle in flight in both batches, and another has
\* been sent the reminder by both
C22_Witness ==
    /\ Len(batch) = 2
    /\ InProgress(1)
    /\ batch[2].trigger = "manual"
    /\ \E p, q \in PhoneNumbers :
        /\ p # q
        /\ InFlight(1, p) # {} /\ InFlight(2, p) # {}
        /\ Reminded(1, q) # {} /\ Reminded(2, q) # {}

(***************************************************************************)
(* Properties of the registry when the read fails (SpecStore)              *)
(***************************************************************************)
\* a registry call made while the read of the document fails
FailedReadIsEmpty ==
    (isUnreadable(file) /\ last' # last) =>
        /\ last'.pre = file
        /\ last'.op = "get" => (last'.sub = <<>> /\ ~last'.ok /\ file' = file)
        /\ last'.op = "getActive" => (last'.list = <<>> /\ file' = file)
        /\ last'.op = "subscribe" =>
                /\ last'.status \in {200, 400}
                /\ last'.status = 200 =>
                        /\ last'.ok
                        /\ Len(last'.sub) = 1
                        /\ last'.sub[1].phoneNumber = last'.phoneNumber
                        /\ last'.sub[1].isActive
                        /\ file' = last'.sub

\* C23: a failed read of the stored document is treated as an empty collection.  While
\* the read fails getSubscription returns null and getActiveSubscriptions returns nothing
\* for every phone number, and a createSubscription succeeds, also for a phone number
\* that was stored, and rewrites the document so that it holds the new record only.
C23_FailedReadIsEmpty == [][FailedReadIsEmpty]_vars

\* C23 witness: the document held two subscriptions when its read began to fail; one of
\* the two phone numbers subscribed again, and the document now holds that record alone
C23_Witness ==
    /\ last.op = "subscribe"
    /\ last.status = 200
    /\ isUnreadable(last.pre)
    /\ Len(last.pre[1].unreadable) = 2
    /\ \E k \in 1..2 : last.pre[1].unreadable[k].phoneNumber = last.phoneNumber
    /\ file = last.sub
    /\ Len(file) = 1

(***************************************************************************)
(* Properties of deactivation and of the other records (Spec)              *)
(***************************************************************************)
\* the phone number has a record in f, and it is inactive
Inactive(f, phoneNumber) ==
    \E k \in 1..Len(f) : f[k].phoneNumber = phoneNumber /\ ~f[k].isActive

\* an unsubscribe of a phone number whose record is already inactive answers success and
\* leaves the document as it was
SecondUnsubscribe ==
    (last.op = "unsubscribe" /\ Inactive(last.pre, last.phoneNumber)) =>
        /\ last.ok
        /\ last.status = 200
        /\ file = last.pre

\* a step leaves every inactive record as it is, or removes it
StaysInactive ==
    \A k \in 1..Len(file) :
        ~file[k].isActive =>
            /\ \A j \in 1..Len(file') : file'[j].id = file[k].id => file'[j] = file[k]
            /\ HasRecord(file', file[k].phoneNumber) => Inactive(file', file[k].phoneNumber)
            /\ ~HasRecord(file', file[k].phoneNumber) => last'.op = "delete"

\* C24: deactivation is permanent and idempotent.  No registry operation sets isActive
\* back to true: an inactive record stays as it is in every later state until
\* deleteSubscription removes it; and a second unsubscribe of the same phone number
\* returns true again, POST /unsubscribe answering success and not 404, and leaves the
\* record unchanged.
C24_DeactivationPermanent == [](SecondUnsubscribe) /\ [][StaysInactive]_vars

\* C24 witness: POST /unsubscribe for a phone number whose record was already inactive
\* answered success, and the record is still stored and inactive
C24_Witness ==
    /\ last.op = "unsubscribe"
    /\ Inactive(last.pre, last.phoneNumber)
    /\ last.ok
    /\ Inactive(file, last.phoneNumber)

\* the records of f, in their order, that belong to other phone numbers
Others(f, phoneNumber) == SelectSeq(f, LAMBDA sub : sub.phoneNumber # phoneNumber)

\* C25: createSubscription, unsubscribe and deleteSubscription on a phone number leave
\* the records of every other phone number as they were; getSubscription and
\* getActiveSubscriptions leave the document as it was; and getActiveSubscriptions
\* returns exactly the stored records whose isActive is true.
C25_OtherRecordsUntouched ==
    /\ last.op \in {"subscribe", "unsubscribe", "delete"} =>
            Others(file, last.phoneNumber) = Others(last.pre, last.phoneNumber)
    /\ last.op \in {"get", "getActive"} => file = last.pre
    /\ last.op = "getActive" =>
            /\ last.list = ActiveIn(last.pre)
            /\ \A k \in 1..Len(last.list) : last.list[k].isActive
            /\ \A k \in 1..Len(file) :
                    file[k].isActive <=> \E j \in 1..Len(last.list) : last.list[j] = file[k]
            /\ Len(last.list) = Cardinality({k \in 1..Len(file) : file[k].isActive})

\* C25 witness: a subscription was created next to an active and an inactive record of
\* other phone numbers, and both are stored as before
C25_Witness ==
    /\ last.op = "subscribe"
    /\ last.status = 200
    /\ file # last.pre
    /\ \E i, j \in 1..Len(last.pre) : last.pre[i].isActive /\ ~last.pre[j].isActive
    /\ Others(file, last.phoneNumber) = last.pre

====
